---- MODULE Spec2Model ----
(***************************************************************************)
(* A model of rustowl's job orchestrator (src/src/lsp/backend.rs,          *)
(* src/src/lsp/analyze.rs) and of the aggregate it merges analysis         *)
(* fragments into (src/src/models.rs).                                     *)
(*                                                                         *)
(* Tasks are modelled at the granularity of their suspension points: one   *)
(* action is the code a task runs between two awaits.  A tokio RwLock that *)
(* is acquired and released inside one such stretch is not a variable; the *)
(* processes lock, which the finalizer keeps while it awaits a job, is.    *)
(***************************************************************************)
EXTENDS Integers, Sequences, FiniteSets, TLC

(***************************************************************************)
(* Bounds of the model.                                                    *)
(***************************************************************************)
\* protocol handler invocations in one run
MaxHandlers == 2
\* events one front end writes before it closes its output
MaxEvents == 1
\* length of a file's function list in the merge-only specification
MaxItems == 4

Targets == {"t1"}
FileNames == {"a.rs", "b.rs"}
FnIds == {1, 2}
Versions == {1, 2}
MaxJobs == MaxHandlers * Cardinality(Targets)
Handlers == 1..MaxHandlers
Jobs == 1..MaxJobs

\* the file a target's front end reports its functions under
FileOf(t) == "a.rs"

VARIABLES
    analyzers,      \* Backend.analyzers: registered targets, in order
    status,         \* Backend.status
    analyzed,       \* Backend.analyzed: Option<Crate>
    processes,      \* Backend.processes: the jobs in the JoinSet
    process_tokens, \* Backend.process_tokens: key -> job owning the token
    held,           \* the task holding the write guard of processes
    handlers,       \* protocol handler invocations
    jobs,           \* the tasks spawned into the JoinSet
    chan,           \* per job: the mpsc channel of its AnalyzeEventIter
    reader,         \* per job: the task feeding the channel
    finalizers,     \* per analyze handler: the task spawned at its end
    changeMark,     \* history: the jobs spawned before did_change last cleared
    lastBatch,      \* history: the handler that last set status to Analyzing
    input,          \* argument of the last data-level operation
    output,         \* result of the last data-level operation
    CACHE,          \* mir_cache::CACHE of a compilation process: Option<CacheData>
    disk,           \* the persisted cache file <crate>.json of that process
    cache_path,     \* get_cache_path() is Some: the cache directory is set
    tasks,          \* compiler TASKS: analyses spawned and not yet joined
    pending,        \* the functions rustc has not yet borrow-checked
    expanded,       \* after_expansion has run to its end
    inserted,       \* history: the insert_cache calls made, in order
    select_local,   \* a SelectLocal visitor
    calc_decos,     \* a CalcDecos visitor: its decorations
    visited         \* history: the events the visitor has visited, in order

backendVars == <<analyzers, status, processes, process_tokens, held,
                 handlers, jobs, chan, reader, finalizers, changeMark,
                 lastBatch>>
cacheVars == <<CACHE, disk, cache_path, tasks, pending, expanded, inserted>>
visitorVars == <<select_local, calc_decos, visited>>
pureVars == <<input, output, cacheVars, visitorVars>>
vars == <<backendVars, analyzed, pureVars>>

(***************************************************************************)
(* models.rs: File, Crate, Crate::merge                                    *)
(***************************************************************************)
\* a function result: its identifier and its content (which analysis made it)
Function(id, ver) == [fn_id |-> id, ver |-> ver]

\* a File of a Crate; a Crate maps every file name to a File or to NoFile
File(items) == [present |-> TRUE, items |-> items]
NoFile == [present |-> FALSE, items |-> <<>>]
EmptyCrate == [f \in FileNames |-> NoFile]

\* Crate.0.len()
CrateLen(krate) == Cardinality({f \in FileNames : krate[f].present})

\* Option<Crate>
None == [some |-> FALSE, crate |-> EmptyCrate]
Some(krate) == [some |-> TRUE, crate |-> krate]

\* Vec::dedup_by(|a, b| a.fn_id == b.fn_id): an element is removed when it has
\* the fn_id of the element retained just before it
RECURSIVE DedupByFnId(_)
DedupByFnId(items) ==
    IF Len(items) <= 1 THEN items
    ELSE LET kept == DedupByFnId(SubSeq(items, 1, Len(items) - 1))
             last == items[Len(items)]
         IN  IF kept[Len(kept)].fn_id = last.fn_id THEN kept
             ELSE Append(kept, last)

\* Crate::merge
CrateMerge(self, other) ==
    [f \in FileNames |->
        IF ~other[f].present THEN self[f]
        ELSE IF self[f].present
             THEN File(DedupByFnId(self[f].items \o other[f].items))
             ELSE other[f]]

\* the Analyzed arm of the job loop, for a workspace fragment of one crate
MergeEvent(agg, krate) ==
    IF agg.some THEN Some(CrateMerge(agg.crate, krate)) ELSE Some(krate)

\* the fragment send_result builds: one file holding one function
Fragment(file, fn) == [f \in FileNames |-> IF f = file THEN File(<<fn>>) ELSE NoFile]

(***************************************************************************)
(* lsp/backend.rs: the state of a Backend and of its tasks                 *)
(***************************************************************************)
NoTask == <<"none", 0>>
HandlerTask(h) == <<"handler", h>>
FinalizerTask(h) == <<"finalizer", h>>

NoPath == "none"
NoResponse == [status |-> "none", is_analyzed |-> FALSE, path |-> NoPath,
               decorations |-> 0]

IdleHandler ==
    [kind |-> "none", pc |-> "idle", phase |-> 0, todo |-> <<>>, cur |-> 0,
     path |-> NoPath, readable |-> FALSE, is_analyzed |-> FALSE,
     st |-> "none", hadFns |-> FALSE, resp |-> NoResponse]

UnusedJob ==
    [pc |-> "unused", target |-> "none", key |-> 0, cancelled |-> FALSE,
     batch |-> 0, observed |-> FALSE, ev |-> 0]

\* the reader of a front end: pc, events sent, workspace fragments among them
IdleReader == [pc |-> "idle", sent |-> 0, nfrag |-> 0]
KilledReader == [pc |-> "killed", sent |-> 0, nfrag |-> 0]

\* a job task that has been spawned and has neither returned nor been dropped
Running(j) == jobs[j].pc \in {"select", "merge", "remove"}
Finished(j) == jobs[j].pc \in {"done", "aborted"}

Range(s) == {s[i] : i \in 1..Len(s)}

\* Backend::new
BackendNew ==
    /\ analyzers = <<>>
    /\ status = "Finished"
    /\ analyzed = None
    /\ processes = {}
    /\ process_tokens = [k \in Jobs |-> 0]
    /\ held = NoTask
    /\ handlers = [h \in Handlers |-> IdleHandler]
    /\ jobs = [j \in Jobs |-> UnusedJob]
    /\ chan = [j \in Jobs |-> <<>>]
    /\ reader = [j \in Jobs |-> IdleReader]
    /\ finalizers = [h \in Handlers |-> "none"]
    /\ changeMark = {}
    /\ lastBatch = 0

\* no compilation process is modelled
NoCompile ==
    /\ CACHE = <<>>
    /\ disk = "absent"
    /\ cache_path = FALSE
    /\ tasks = {}
    /\ pending = {}
    /\ expanded = FALSE
    /\ inserted = <<>>

\* no visitor is modelled
NoVisitor ==
    /\ select_local = <<>>
    /\ calc_decos = <<>>
    /\ visited = <<>>

Init ==
    /\ BackendNew
    /\ input = <<>>
    /\ output = <<>>
    /\ NoCompile
    /\ NoVisitor

\* a request or notification may arrive: handler slots are used in order
CanArrive(h) ==
    /\ handlers[h].pc = "idle"
    /\ \A i \in 1..(h - 1) : handlers[i].pc # "idle"

Begin(kind, pc, phase) == [IdleHandler EXCEPT !.kind = kind, !.pc = pc, !.phase = phase]
Done(rec) == [IdleHandler EXCEPT !.kind = rec.kind, !.pc = "done", !.resp = rec.resp,
                                 !.path = rec.path, !.readable = rec.readable,
                                 !.st = rec.st, !.hadFns = rec.hadFns,
                                 !.is_analyzed = rec.is_analyzed]

(***************************************************************************)
(* Handlers that start an analysis.  initialize, did_open and              *)
(* did_change_workspace_folders register a target (add_analyze_target) and *)
(* call do_analyze; rustowl/analyze and the rustowl.analyze command call   *)
(* do_analyze alone.                                                       *)
(***************************************************************************)
\* add_analyze_target: Analyzer::new may fail (ok = FALSE); a target already
\* registered is not pushed again
AddAnalyzeTarget(list, t, ok) ==
    IF ok /\ t \notin Range(list) THEN Append(list, t) ELSE list

DidOpen(h) ==
    /\ CanArrive(h)
    /\ \E t \in Targets, ok \in BOOLEAN :
          /\ analyzers' = AddAnalyzeTarget(analyzers, t, ok)
          /\ handlers' = [handlers EXCEPT ![h] =
                IF ok THEN Begin("open", "sd_tok", 2) ELSE Done(Begin("open", "done", 0))]
    /\ UNCHANGED <<status, analyzed, processes, process_tokens, held, jobs, chan,
                   reader, finalizers, changeMark, lastBatch, pureVars>>

Analyze(h) ==
    /\ CanArrive(h)
    /\ handlers' = [handlers EXCEPT ![h] = Begin("analyze", "sd_tok", 2)]
    /\ UNCHANGED <<analyzers, status, analyzed, processes, process_tokens, held, jobs,
                   chan, reader, finalizers, changeMark, lastBatch, pureVars>>

\* LanguageServer::shutdown
Shutdown(h) ==
    /\ CanArrive(h)
    /\ handlers' = [handlers EXCEPT ![h] = Begin("shutdown", "sd_tok", 1)]
    /\ UNCHANGED <<analyzers, status, analyzed, processes, process_tokens, held, jobs,
                   chan, reader, finalizers, changeMark, lastBatch, pureVars>>

\* did_change, up to its first await inside shutdown_subprocesses
DidChange(h) ==
    /\ CanArrive(h)
    /\ analyzed' = None
    /\ changeMark' = {j \in Jobs : jobs[j].pc \notin {"unused", "unspawned"}}
    /\ handlers' = [handlers EXCEPT ![h] = Begin("did_change", "sd_tok", 1)]
    /\ UNCHANGED <<analyzers, status, processes, process_tokens, held, jobs, chan,
                   reader, finalizers, lastBatch, pureVars>>

(***************************************************************************)
(* shutdown_subprocesses                                                   *)
(***************************************************************************)
\* token.cancel() on every token popped from process_tokens
CancelAll(js, tokens) ==
    [j \in Jobs |-> IF \E k \in Jobs : tokens[k] = j
                    THEN [js[j] EXCEPT !.cancelled = TRUE] ELSE js[j]]

ShutdownTokens(h) ==
    /\ handlers[h].pc = "sd_tok"
    /\ jobs' = CancelAll(jobs, process_tokens)
    /\ process_tokens' = [k \in Jobs |-> 0]
    /\ handlers' = [handlers EXCEPT ![h].pc = "sd_lock"]
    /\ UNCHANGED <<analyzers, status, analyzed, processes, held, chan, reader,
                   finalizers, changeMark, lastBatch, pureVars>>

\* JoinSet::abort_all: a task that has not returned is dropped at its await
AbortAll(js, set) ==
    [j \in Jobs |-> IF j \in set /\ js[j].pc \in {"select", "merge", "remove"}
                    THEN [js[j] EXCEPT !.pc = "aborted", !.ev = 0] ELSE js[j]]

\* where a handler goes when shutdown_subprocesses returns
AfterShutdown(rec) ==
    IF rec.phase > 1 THEN [rec EXCEPT !.pc = "sd_tok", !.phase = rec.phase - 1]
    ELSE IF rec.kind \in {"open", "analyze"}
         THEN [rec EXCEPT !.pc = "set_status", !.phase = 0]
         ELSE Done(rec)

\* processes.write().await.shutdown().await: every task of the set is aborted
\* and joined.  Nothing but the guard changes between the abort and the last
\* join, so the two are one step.
ShutdownProcesses(h) ==
    /\ handlers[h].pc = "sd_lock"
    /\ held = NoTask
    /\ jobs' = AbortAll(jobs, processes)
    /\ processes' = {}
    /\ chan' = [j \in Jobs |-> IF j \in processes THEN <<>> ELSE chan[j]]
    /\ reader' = [j \in Jobs |-> IF j \in processes /\ Running(j) THEN KilledReader
                                 ELSE reader[j]]
    /\ handlers' = [handlers EXCEPT ![h] = AfterShutdown(handlers[h])]
    /\ UNCHANGED <<analyzers, status, analyzed, process_tokens, held, finalizers,
                   changeMark, lastBatch, pureVars>>

(***************************************************************************)
(* analyze_with_options                                                    *)
(***************************************************************************)
SetStatus(h) ==
    /\ handlers[h].pc = "set_status"
    /\ status' = "Analyzing"
    /\ lastBatch' = h
    /\ handlers' = [handlers EXCEPT ![h].pc = "read_analyzers"]
    /\ UNCHANGED <<analyzers, analyzed, processes, process_tokens, held, jobs, chan,
                   reader, finalizers, changeMark, pureVars>>

\* the finalizer task is spawned right after the loop over the analyzers
EndOfLoop(h, todo) ==
    IF todo = <<>> THEN "lock" ELSE finalizers[h]

ReadAnalyzers(h) ==
    /\ handlers[h].pc = "read_analyzers"
    /\ handlers' = [handlers EXCEPT ![h] =
          IF analyzers = <<>> THEN Done(handlers[h])
          ELSE [handlers[h] EXCEPT !.pc = "token", !.todo = analyzers]]
    /\ finalizers' = [finalizers EXCEPT ![h] = EndOfLoop(h, analyzers)]
    /\ UNCHANGED <<analyzers, status, analyzed, processes, process_tokens, held, jobs,
                   chan, reader, changeMark, lastBatch, pureVars>>

\* tokens.last_entry().map(|v| *v.key()).map_or(1, |key| key + 1)
NextKey(tokens) ==
    LET used == {k \in Jobs : tokens[k] # 0}
    IN  IF used = {} THEN 1 ELSE 1 + CHOOSE k \in used : \A m \in used : m <= k

NewJob == CHOOSE j \in Jobs : jobs[j].pc = "unused" /\ \A i \in 1..(j - 1) : jobs[i].pc # "unused"

InsertToken(h) ==
    /\ handlers[h].pc = "token"
    /\ LET j == NewJob
           key == NextKey(process_tokens)
       IN  /\ process_tokens' = [process_tokens EXCEPT ![key] = j]
           /\ jobs' = [jobs EXCEPT ![j] =
                 [UnusedJob EXCEPT !.pc = "unspawned", !.target = Head(handlers[h].todo),
                                   !.key = key, !.batch = h]]
           /\ handlers' = [handlers EXCEPT ![h].pc = "spawn", ![h].cur = j]
    /\ UNCHANGED <<analyzers, status, analyzed, processes, held, chan, reader,
                   finalizers, changeMark, lastBatch, pureVars>>

\* processes.write().await.spawn(..).  The task runs up to its first
\* select!: Analyzer::analyze starts the front end and spawns its reader.
SpawnJob(h) ==
    /\ handlers[h].pc = "spawn"
    /\ held = NoTask
    /\ LET rest == Tail(handlers[h].todo)
       IN  /\ processes' = processes \cup {handlers[h].cur}
           /\ jobs' = [jobs EXCEPT ![handlers[h].cur].pc = "select"]
           /\ reader' = [reader EXCEPT ![handlers[h].cur].pc = "run"]
           /\ handlers' = [handlers EXCEPT ![h] =
                 IF rest = <<>> THEN Done(handlers[h])
                 ELSE [handlers[h] EXCEPT !.pc = "token", !.todo = rest, !.cur = 0]]
           /\ finalizers' = [finalizers EXCEPT ![h] = EndOfLoop(h, rest)]
    /\ UNCHANGED <<analyzers, status, analyzed, process_tokens, held, chan,
                   changeMark, lastBatch, pureVars>>

(***************************************************************************)
(* The job task spawned by analyze_with_options (backend.rs 124-181) and   *)
(* the AnalyzeEventIter it drains (analyze.rs)                             *)
(***************************************************************************)
\* a loop that goes on polling after cancelled() has completed
ObserveCancelAndContinue(job) == [job EXCEPT !.observed = TRUE]

\* `() = cancellation_token.cancelled() => None`: the while-let loop ends
ObserveCancel(job) == [job EXCEPT !.pc = "remove", !.observed = TRUE]

\* select!: the cancelled() branch wins
JobObserveCancel(j) ==
    /\ jobs[j].pc = "select"
    /\ jobs[j].cancelled
    /\ jobs' = [jobs EXCEPT ![j] = ObserveCancel(jobs[j])]
    /\ UNCHANGED <<analyzers, status, analyzed, processes, process_tokens, held,
                   handlers, chan, reader, finalizers, changeMark, lastBatch,
                   pureVars>>

\* what the loop does with an event next_event returned: Analyzed goes on to
\* analyzed.write().await, CrateChecked only reports progress
AfterEvent(job, event) ==
    IF event.kind = "Analyzed" THEN [job EXCEPT !.pc = "merge", !.ev = event.fn]
    ELSE job

\* select!: next_event wins with receiver.recv() = Some(event)
JobRecv(j) ==
    /\ jobs[j].pc = "select"
    /\ chan[j] # <<>>
    /\ jobs' = [jobs EXCEPT ![j] = AfterEvent(jobs[j], Head(chan[j]))]
    /\ chan' = [chan EXCEPT ![j] = Tail(chan[j])]
    /\ UNCHANGED <<analyzers, status, analyzed, processes, process_tokens, held,
                   handlers, reader, finalizers, changeMark, lastBatch, pureVars>>

\* next_event = None: notify.notified() wins inside next_event's select!
\* (the reader has called notify_one), or recv() finds the channel closed
EndOfStream(j) == reader[j].pc = "closed"

JobEndOfStream(j) ==
    /\ jobs[j].pc = "select"
    /\ EndOfStream(j)
    /\ jobs' = [jobs EXCEPT ![j].pc = "remove"]
    /\ UNCHANGED <<analyzers, status, analyzed, processes, process_tokens, held,
                   handlers, chan, reader, finalizers, changeMark, lastBatch, pureVars>>

\* the Analyzed arm: the fragment of job j is merged under analyzed.write()
JobMerge(j) ==
    /\ jobs[j].pc = "merge"
    /\ analyzed' = MergeEvent(analyzed,
                      Fragment(FileOf(jobs[j].target), Function(jobs[j].ev, j)))
    /\ jobs' = [jobs EXCEPT ![j].pc = "select", ![j].ev = 0]
    /\ UNCHANGED <<analyzers, status, processes, process_tokens, held, handlers, chan,
                   reader, finalizers, changeMark, lastBatch, pureVars>>

\* process_tokens.write().await.remove(&cancellation_token_key); the task ends
\* and its AnalyzeEventIter is dropped: the receiver is gone, the child killed
JobRemoveToken(j) ==
    /\ jobs[j].pc = "remove"
    /\ process_tokens' = [process_tokens EXCEPT ![jobs[j].key] = 0]
    /\ jobs' = [jobs EXCEPT ![j].pc = "done"]
    /\ chan' = [chan EXCEPT ![j] = <<>>]
    /\ reader' = [reader EXCEPT ![j] =
          IF reader[j].pc = "closed" THEN reader[j] ELSE KilledReader]
    /\ UNCHANGED <<analyzers, status, analyzed, processes, held, handlers,
                   finalizers, changeMark, lastBatch, pureVars>>

(***************************************************************************)
(* The reader of the front end's output (analyze.rs 164-186, 220-247)      *)
(***************************************************************************)
\* the n-th workspace fragment of a front end holds function n
Event(kind, r) == [kind |-> kind, fn |-> IF kind = "Analyzed" THEN r.nfrag + 1 ELSE 0]

ReaderSend(j) ==
    /\ reader[j].pc = "run"
    /\ reader[j].sent < MaxEvents
    /\ \E kind \in {"CrateChecked", "Analyzed"} :
          /\ chan' = [chan EXCEPT ![j] = Append(chan[j], Event(kind, reader[j]))]
          /\ reader' = [reader EXCEPT ![j].sent = reader[j].sent + 1,
                           ![j].nfrag = reader[j].nfrag + (IF kind = "Analyzed" THEN 1 ELSE 0)]
    /\ UNCHANGED <<analyzers, status, analyzed, processes, process_tokens, held,
                   handlers, jobs, finalizers, changeMark, lastBatch, pureVars>>

\* the output closes: notify_one, and the sender is dropped with the task.
\* Whether the front end exited cleanly, with an error or by a panic is only
\* logged (analyze.rs 240-244), so it is no part of the state.
ReaderClose(j) ==
    /\ reader[j].pc = "run"
    /\ reader' = [reader EXCEPT ![j].pc = "closed"]
    /\ UNCHANGED <<analyzers, status, analyzed, processes, process_tokens, held,
                   handlers, jobs, chan, finalizers, changeMark, lastBatch, pureVars>>

(***************************************************************************)
(* The finalizer task (backend.rs 187-198)                                 *)
(***************************************************************************)
\* processes.write().await
FinalizerLock(h) ==
    /\ finalizers[h] = "lock"
    /\ held = NoTask
    /\ held' = FinalizerTask(h)
    /\ finalizers' = [finalizers EXCEPT ![h] = "joining"]
    /\ UNCHANGED <<analyzers, status, analyzed, processes, process_tokens, handlers,
                   jobs, chan, reader, changeMark, lastBatch, pureVars>>

\* join_next().await returns Some: a task of the set has ended
FinalizerJoinSome(h) ==
    /\ finalizers[h] = "joining"
    /\ \E j \in processes :
          /\ Finished(j)
          /\ processes' = processes \ {j}
    /\ held' = NoTask
    /\ finalizers' = [finalizers EXCEPT ![h] = "lock"]
    /\ UNCHANGED <<analyzers, status, analyzed, process_tokens, handlers, jobs, chan,
                   reader, changeMark, lastBatch, pureVars>>

\* join_next().await returns None: the set is empty
FinalizerJoinNone(h) ==
    /\ finalizers[h] = "joining"
    /\ processes = {}
    /\ held' = NoTask
    /\ finalizers' = [finalizers EXCEPT ![h] = "status"]
    /\ UNCHANGED <<analyzers, status, analyzed, processes, process_tokens, handlers,
                   jobs, chan, reader, changeMark, lastBatch, pureVars>>

\* a finalizer that leaves the status as it finds it
FinalStatusKept(st, agg) == st

\* the status the finalizer leaves (backend.rs 191-197)
FinalStatus(st, agg) ==
    IF st # "Error"
    THEN IF (IF agg.some THEN CrateLen(agg.crate) ELSE 0) = 0 THEN "Error" ELSE "Finished"
    ELSE st

\* status.write().await, analyzed.write().await, the decision, and both
\* guards dropped: no other task keeps either lock across an await
FinalizerDecide(h) ==
    /\ finalizers[h] = "status"
    /\ status' = FinalStatus(status, analyzed)
    /\ finalizers' = [finalizers EXCEPT ![h] = "done"]
    /\ UNCHANGED <<analyzers, analyzed, processes, process_tokens, held, handlers,
                   jobs, chan, reader, changeMark, lastBatch, pureVars>>

(***************************************************************************)
(* rustowl/cursor (backend.rs 201-297)                                     *)
(***************************************************************************)
\* the file of the query has at least one function in the aggregate
HasFunctions(agg, path) ==
    agg.some /\ path \in FileNames /\ agg.crate[path].present
             /\ agg.crate[path].items # <<>>

\* Backend::decos: hit says whether the cursor selects a variable of one of the
\* file's functions for which CalcDecos yields decorations; the result is
\* Ok (n decorations) or Err (err)
Decos(agg, path, hit) ==
    LET error == IF HasFunctions(agg, path) THEN "Finished" ELSE "Error"
        n == IF HasFunctions(agg, path) /\ hit THEN 1 ELSE 0
    IN  [ok |-> n > 0, n |-> n, err |-> error]

\* a response that passes the stored status on whatever decos answered
ReportedStatusStored(st, r) == st

\* the status of the response, from the result of decos (backend.rs 272-282)
ReportedStatus(st, r) ==
    IF r.ok THEN st
    ELSE IF st = "Finished" THEN r.err ELSE st

\* the request arrives; is_analyzed is read
Cursor(h) ==
    /\ CanArrive(h)
    /\ \E path \in FileNames \cup {NoPath}, readable \in BOOLEAN :
          /\ path = NoPath => ~readable
          /\ handlers' = [handlers EXCEPT ![h] =
                [Begin("cursor", "c_status", 0) EXCEPT !.path = path,
                       !.readable = readable, !.is_analyzed = analyzed.some]]
    /\ UNCHANGED <<analyzers, status, analyzed, processes, process_tokens, held, jobs,
                   chan, reader, finalizers, changeMark, lastBatch, pureVars>>

\* status is read; a request without a readable document is answered at once
CursorStatus(h) ==
    /\ handlers[h].pc = "c_status"
    /\ handlers' = [handlers EXCEPT ![h] =
          IF handlers[h].readable
          THEN [handlers[h] EXCEPT !.pc = "c_decos", !.st = status]
          ELSE Done([handlers[h] EXCEPT !.st = status,
                        !.hadFns = HasFunctions(analyzed, handlers[h].path),
                        !.resp = [status |-> status,
                                  is_analyzed |-> handlers[h].is_analyzed,
                                  path |-> NoPath, decorations |-> 0]])]
    /\ UNCHANGED <<analyzers, status, analyzed, processes, process_tokens, held, jobs,
                   chan, reader, finalizers, changeMark, lastBatch, pureVars>>

\* decos is computed under analyzed.read() and the response is built
CursorDecos(h) ==
    /\ handlers[h].pc = "c_decos"
    /\ \E hit \in BOOLEAN :
          LET r == Decos(analyzed, handlers[h].path, hit)
          IN  handlers' = [handlers EXCEPT ![h] =
                 Done([handlers[h] EXCEPT
                        !.hadFns = HasFunctions(analyzed, handlers[h].path),
                        !.resp = [status |-> ReportedStatus(handlers[h].st, r),
                                  is_analyzed |-> handlers[h].is_analyzed,
                                  path |-> handlers[h].path, decorations |-> r.n]])]
    /\ UNCHANGED <<analyzers, status, analyzed, processes, process_tokens, held, jobs,
                   chan, reader, finalizers, changeMark, lastBatch, pureVars>>

(***************************************************************************)
(* The orchestrator                                                        *)
(***************************************************************************)
Next ==
    \/ \E h \in Handlers :
          \/ DidOpen(h) \/ Analyze(h) \/ Shutdown(h) \/ DidChange(h) \/ Cursor(h)
          \/ ShutdownTokens(h) \/ ShutdownProcesses(h)
          \/ SetStatus(h) \/ ReadAnalyzers(h) \/ InsertToken(h) \/ SpawnJob(h)
          \/ CursorStatus(h) \/ CursorDecos(h)
          \/ FinalizerLock(h) \/ FinalizerJoinSome(h) \/ FinalizerJoinNone(h)
          \/ FinalizerDecide(h)
    \/ \E j \in Jobs :
          \/ JobObserveCancel(j) \/ JobRecv(j) \/ JobEndOfStream(j)
          \/ JobMerge(j) \/ JobRemoveToken(j)
          \/ ReaderSend(j) \/ ReaderClose(j)

Spec == Init /\ [][Next]_vars

(***************************************************************************)
(* The aggregate alone: fragments, as send_result builds them (one file,   *)
(* one function), merged one after the other the way the job loop merges   *)
(* every Analyzed event.                                                   *)
(***************************************************************************)
MergeFragment ==
    /\ \E file \in FileNames, id \in FnIds, ver \in Versions :
          /\ Len(analyzed.crate[file].items) < MaxItems
          /\ input' = [file |-> file, fn |-> Function(id, ver)]
          /\ analyzed' = MergeEvent(analyzed, Fragment(file, Function(id, ver)))
    /\ UNCHANGED <<backendVars, output, cacheVars, visitorVars>>

SpecMerge == Init /\ [][MergeFragment]_vars

(***************************************************************************)
(* mir_cache.rs: CacheData, a map file hash -> (MIR body hash -> result)   *)
(***************************************************************************)
\* insert_cache calls in one run of the cache-only specification
MaxInserts == 3

FileHashes == {"fa", "fb"}
MirHashes == {"ma", "mb"}
\* analysis results (the Function stored for a body)
Results == {1, 2}

\* HashMap::new()
EmptyMap == [k \in {} |-> 0]

\* CacheData::new
CacheData_new == EmptyMap

\* Option<Function>
Miss == [hit |-> FALSE, fn |-> 0]
Hit(f) == [hit |-> TRUE, fn |-> f]

\* self.0.get(file_hash).and_then(|v| v.get(mir_hash)).cloned()
CacheData_get_cache(data, file_hash, mir_hash) ==
    IF file_hash \in DOMAIN data /\ mir_hash \in DOMAIN data[file_hash]
    THEN Hit(data[file_hash][mir_hash])
    ELSE Miss

\* HashMap::insert
MapInsert(map, key, value) ==
    [k \in DOMAIN map \cup {key} |-> IF k = key THEN value ELSE map[k]]

\* an insert that replaces the file's whole inner map
insert_cache_fresh(data, file_hash, mir_hash, fn) ==
    MapInsert(data, file_hash, MapInsert(EmptyMap, mir_hash, fn))

\* self.0.entry(file_hash).or_default().insert(mir_hash, analyzed); fn is the
\* analyzed Function
insert_cache(data, file_hash, mir_hash, fn) ==
    LET entry == IF file_hash \in DOMAIN data THEN data[file_hash] ELSE EmptyMap
    IN  MapInsert(data, file_hash, MapInsert(entry, mir_hash, fn))

\* Option<CacheData>, the content of the CACHE static
CacheNone == [some |-> FALSE, data |-> EmptyMap]
CacheSome(data) == [some |-> TRUE, data |-> data]

\* the cache alone: any sequence of insert_cache and get_cache calls
InitCacheData ==
    /\ BackendNew
    /\ NoVisitor
    /\ input = <<>>
    /\ output = Miss
    /\ CACHE = CacheSome(CacheData_new)
    /\ disk = "absent"
    /\ cache_path = FALSE
    /\ tasks = {}
    /\ pending = {}
    /\ expanded = FALSE
    /\ inserted = <<>>

InsertCache ==
    /\ Len(inserted) < MaxInserts
    /\ \E fh \in FileHashes, mh \in MirHashes, f \in Results :
          /\ CACHE' = CacheSome(insert_cache(CACHE.data, fh, mh, f))
          /\ inserted' = Append(inserted, [fh |-> fh, mh |-> mh, fn |-> f])
          /\ input' = [op |-> "insert", fh |-> fh, mh |-> mh]
    /\ UNCHANGED <<backendVars, analyzed, output, disk, cache_path, tasks, pending,
                   expanded, visitorVars>>

GetCache ==
    /\ \E fh \in FileHashes, mh \in MirHashes :
          /\ input' = [op |-> "get", fh |-> fh, mh |-> mh]
          /\ output' = CacheData_get_cache(CACHE.data, fh, mh)
    /\ UNCHANGED <<backendVars, analyzed, cacheVars, visitorVars>>

NextCacheData == InsertCache \/ GetCache

SpecCacheData == InitCacheData /\ [][NextCacheData]_vars

(***************************************************************************)
(* One compilation process with the MIR cache: mir_cache.rs (get_cache,    *)
(* write_cache), MirAnalyzer::init (mir_analysis.rs) and the callbacks of  *)
(* compiler/mod.rs (mir_borrowck, send_result, after_expansion)            *)
(***************************************************************************)
\* the functions of the crate: fn_id, hash of the file, hash of the MIR body
CrateFns == {[fn_id |-> 1, fh |-> "fa", mh |-> "ma"],
             [fn_id |-> 2, fh |-> "fa", mh |-> "mb"]}

\* the Function that analysing f yields
Analysis(f) == f.fn_id

\* the persisted file <cache dir>/<crate>.json
AbsentFile == [kind |-> "absent", data |-> EmptyMap]
MalformedFile == [kind |-> "malformed", data |-> EmptyMap]
ValidFile(data) == [kind |-> "valid", data |-> data]
PersistedFiles ==
    {AbsentFile, MalformedFile, ValidFile(CacheData_new),
     ValidFile(insert_cache(CacheData_new, "fa", "ma", 1))}

\* mir_cache::get_cache(krate): None without a cache directory; an empty
\* CacheData when the file cannot be read; serde_json::from_str(&s).ok()
\* otherwise, which is None for a malformed file
get_cache(path, file) ==
    IF ~path THEN CacheNone
    ELSE IF file.kind = "absent" THEN CacheSome(CacheData_new)
    ELSE IF file.kind = "malformed" THEN CacheNone
    ELSE CacheSome(file.data)

\* mir_cache::write_cache(krate, cache); writable is FALSE when the directory
\* or the file cannot be created or written
write_cache(path, writable, file, data) ==
    IF path /\ writable THEN ValidFile(data) ELSE file

\* send_result: `if let Some(cache) = CACHE.lock().unwrap().as_mut()`
send_result(cache, f, fn) ==
    IF cache.some THEN CacheSome(insert_cache(cache.data, f.fh, f.mh, fn)) ELSE cache

\* the insert_cache call send_result makes, if it makes one
InsertedBy(cache, f, fn) ==
    IF cache.some THEN Append(inserted, [fh |-> f.fh, mh |-> f.mh, fn |-> fn])
    ELSE inserted

\* the process starts: CACHE is None; the environment fixes the cache
\* directory, the state of the persisted file, and the functions whose
\* analysis panics
InitCompile ==
    /\ BackendNew
    /\ NoVisitor
    /\ output = <<>>
    /\ \E path \in BOOLEAN, writable \in BOOLEAN, file \in PersistedFiles,
          panics \in SUBSET CrateFns :
          /\ input = [disk0 |-> file.kind, writable |-> writable, panics |-> panics]
          /\ cache_path = path
          /\ disk = file
    /\ CACHE = CacheNone
    /\ tasks = {}
    /\ pending = CrateFns
    /\ expanded = FALSE
    /\ inserted = <<>>

\* mir_borrowck(def_id): MirAnalyzer::init sets the cache up if CACHE is None
\* and looks the function up; a hit is sent at once, a miss spawns an analysis
MirBorrowck(f) ==
    /\ f \in pending
    /\ LET loaded == IF CACHE.some THEN CACHE ELSE get_cache(cache_path, disk)
           cached == IF loaded.some
                     THEN CacheData_get_cache(loaded.data, f.fh, f.mh) ELSE Miss
       IN  IF cached.hit
           THEN /\ CACHE' = send_result(loaded, f, cached.fn)
                /\ inserted' = InsertedBy(loaded, f, cached.fn)
                /\ output' = Append(output, cached.fn)
                /\ tasks' = tasks
           ELSE /\ CACHE' = loaded
                /\ tasks' = tasks \cup {f}
                /\ UNCHANGED <<inserted, output>>
    /\ pending' = pending \ {f}
    /\ UNCHANGED <<backendVars, analyzed, input, disk, cache_path, expanded,
                   visitorVars>>

\* a spawned analysis is joined with Some(Ok(result)) (try_join_next in
\* mir_borrowck, join_next in after_expansion) and its result sent
TaskJoined(f) ==
    /\ f \in tasks
    /\ f \notin input.panics
    /\ ~expanded
    /\ tasks' = tasks \ {f}
    /\ CACHE' = send_result(CACHE, f, Analysis(f))
    /\ inserted' = InsertedBy(CACHE, f, Analysis(f))
    /\ output' = Append(output, Analysis(f))
    /\ UNCHANGED <<backendVars, analyzed, input, disk, cache_path, pending,
                   expanded, visitorVars>>

\* try_join_next in mir_borrowck yields Some(Err(_)) for an analysis that
\* panicked: the task leaves the set and the `while let Some(Ok(result))`
\* loop ends
TaskFailed(f) ==
    /\ f \in tasks
    /\ f \in input.panics
    /\ pending # {}
    /\ tasks' = tasks \ {f}
    /\ UNCHANGED <<backendVars, analyzed, input, output, CACHE, disk, cache_path,
                   pending, expanded, inserted, visitorVars>>

\* after_expansion, when join_next yields None (the set is empty): the cache
\* is written if CACHE is Some
AfterExpansion ==
    /\ pending = {} /\ tasks = {} /\ ~expanded
    /\ disk' = IF CACHE.some
               THEN write_cache(cache_path, input.writable, disk, CACHE.data)
               ELSE disk
    /\ expanded' = TRUE
    /\ UNCHANGED <<backendVars, analyzed, input, output, CACHE, cache_path, tasks,
                   pending, inserted, visitorVars>>

\* after_expansion, when join_next yields Some(Err(_)) for an analysis that
\* panicked: the `while let Some(Ok(result))` loop ends with the other tasks
\* still in the set, and the cache is written if CACHE is Some
AfterExpansionJoinErr(f) ==
    /\ pending = {} /\ ~expanded
    /\ f \in tasks
    /\ f \in input.panics
    /\ tasks' = tasks \ {f}
    /\ disk' = IF CACHE.some
               THEN write_cache(cache_path, input.writable, disk, CACHE.data)
               ELSE disk
    /\ expanded' = TRUE
    /\ UNCHANGED <<backendVars, analyzed, input, output, CACHE, cache_path,
                   pending, inserted, visitorVars>>

NextCompile ==
    \/ \E f \in CrateFns : MirBorrowck(f) \/ TaskJoined(f) \/ TaskFailed(f)
    \/ AfterExpansion
    \/ \E f \in CrateFns : AfterExpansionJoinErr(f)

SpecCompile == InitCompile /\ [][NextCompile]_vars

(***************************************************************************)
(* models.rs: Loc, Range; utils.rs: the range operations                   *)
(***************************************************************************)
\* largest source position of the ranges drawn
MaxLoc == 4
\* longest list given to eliminated_ranges
MaxLen == 3
\* longest `from` list and longest `excludes` list given to exclude_ranges
MaxFrom == 2
MaxExcludes == 1

Min(a, b) == IF a < b THEN a ELSE b
Max(a, b) == IF a < b THEN b ELSE a

\* impl Add<i32> for Loc: saturates at 0 for a negative rhs.  A Loc is a u32;
\* the positions drawn stay far below its maximum, where the sum is exact.
Loc_add(loc, rhs) == IF rhs < 0 /\ loc < -rhs THEN 0 ELSE loc + rhs

\* impl Sub<i32> for Loc: saturates at 0
Loc_sub(loc, rhs) == IF 0 < rhs /\ loc < rhs THEN 0 ELSE loc - rhs

\* Option<Range>; a Range is the half-open interval [from, until)
NoRange == [some |-> FALSE, from |-> 0, until |-> 0]
SomeRange(r) == [some |-> TRUE, from |-> r.from, until |-> r.until]
Unwrap(o) == [from |-> o.from, until |-> o.until]

\* Range::new
Range_new_inclusive(from, until) ==
    IF until < from THEN NoRange ELSE SomeRange([from |-> from, until |-> until])
Range_new(from, until) ==
    IF until <= from THEN NoRange ELSE SomeRange([from |-> from, until |-> until])

\* Range::size
Range_size(r) == r.until - r.from

\* the ranges Range::new accepts, within the bound
Ranges == {[from |-> a, until |-> b] : a \in 0..MaxLoc, b \in 0..MaxLoc} \cap
          {r \in [from : 0..MaxLoc, until : 0..MaxLoc] : r.from < r.until}

RangeLists(n) == UNION {[1..k -> Ranges] : k \in 0..n}

\* is_super_range
is_super_range(r1, r2) ==
    \/ r1.from < r2.from /\ r2.until <= r1.until
    \/ r1.from <= r2.from /\ r2.until < r1.until

\* a common_range that does not order its arguments first
common_range_unordered(r1, r2) ==
    IF r1.until < r2.from THEN NoRange
    ELSE Range_new(r2.from, Min(r1.until, r2.until))

\* common_range
RECURSIVE common_range(_, _)
common_range(r1, r2) ==
    IF r2.from < r1.from THEN common_range(r2, r1)
    ELSE IF r1.until < r2.from THEN NoRange
    ELSE Range_new(r2.from, Min(r1.until, r2.until))

\* a merge that joins overlapping ranges only, not adjacent ones
merge_ranges_overlapping(r1, r2) ==
    IF common_range(r1, r2).some
    THEN Range_new(Min(r1.from, r2.from), Max(r1.until, r2.until))
    ELSE NoRange

\* merge_ranges
merge_ranges(r1, r2) ==
    IF common_range(r1, r2).some \/ r1.until = r2.from \/ r2.until = r1.from
    THEN Range_new(Min(r1.from, r2.from), Max(r1.until, r2.until))
    ELSE NoRange

\* Vec::remove(i), 1-based
Remove(seq, i) == SubSeq(seq, 1, i - 1) \o SubSeq(seq, i + 1, Len(seq))

\* the loops of eliminated_ranges from the indices i, j (1-based)
RECURSIVE Eliminate(_, _, _)
Eliminate(ranges, i, j) ==
    IF i > Len(ranges) THEN ranges
    ELSE IF j > Len(ranges) THEN Eliminate(ranges, i + 1, 1)
    ELSE LET merged == IF i # j THEN merge_ranges(ranges[i], ranges[j]) ELSE NoRange
         IN  IF merged.some
             THEN Eliminate(Remove([ranges EXCEPT ![i] = Unwrap(merged)], j), i, 1)
             ELSE Eliminate(ranges, i, j + 1)

\* eliminated_ranges
eliminated_ranges(ranges) == Eliminate(ranges, 1, 1)

\* Option<Range> as the list of what is pushed
Pushed(o) == IF o.some THEN <<Unwrap(o)>> ELSE <<>>

\* an index that moves on after the removal, skipping the element that took
\* the removed one's place
AfterRemoveSkip(i) == i + 1

\* `from.remove(i); continue 'outer;`: the index stays where it is
AfterRemove(i) == i

\* the loops of exclude_ranges from the indices i, j (1-based)
RECURSIVE Exclude(_, _, _, _)
Exclude(from, excludes, i, j) ==
    IF i > Len(from) THEN from
    ELSE IF j > Len(excludes) THEN Exclude(from, excludes, i + 1, 1)
    ELSE LET common == common_range(from[i], excludes[j])
         IN  IF common.some
             THEN LET left == Range_new(from[i].from, Loc_sub(common.from, 1))
                      right == Range_new(Loc_add(common.until, 1), from[i].until)
                  IN  Exclude(Remove(from \o Pushed(left) \o Pushed(right), i),
                              excludes, AfterRemove(i), 1)
             ELSE Exclude(from, excludes, i, j + 1)

\* exclude_ranges
exclude_ranges(from, excludes) == eliminated_ranges(Exclude(from, excludes, 1, 1))

\* eliminated_ranges applied to a list of ranges
InitEliminate ==
    /\ BackendNew /\ NoCompile /\ NoVisitor
    /\ input \in RangeLists(MaxLen)
    /\ output = [done |-> FALSE, ranges |-> <<>>]

EliminatedRanges ==
    /\ ~output.done
    /\ output' = [done |-> TRUE, ranges |-> eliminated_ranges(input)]
    /\ UNCHANGED <<backendVars, analyzed, input, cacheVars, visitorVars>>

SpecEliminate == InitEliminate /\ [][EliminatedRanges]_vars

\* exclude_ranges applied to two lists of ranges
InitExclude ==
    /\ BackendNew /\ NoCompile /\ NoVisitor
    /\ \E xs \in RangeLists(MaxFrom), ys \in RangeLists(MaxExcludes) :
          input = [xs |-> xs, ys |-> ys]
    /\ output = [op |-> "none", ranges |-> <<>>]

ExcludeRanges ==
    /\ output.op = "none"
    /\ output' = [op |-> "exclude", ranges |-> exclude_ranges(input.xs, input.ys)]
    /\ UNCHANGED <<backendVars, analyzed, input, cacheVars, visitorVars>>

SpecExclude == InitExclude /\ [][ExcludeRanges]_vars

\* common_range applied to two ranges, in both orders
InitCommon ==
    /\ BackendNew /\ NoCompile /\ NoVisitor
    /\ \E a \in Ranges, b \in Ranges : input = [a |-> a, b |-> b]
    /\ output = [op |-> "none", ranges |-> <<>>]

CommonRange ==
    /\ output.op = "none"
    /\ output' = [op |-> "common",
                  ranges |-> <<common_range(input.a, input.b),
                               common_range(input.b, input.a)>>]
    /\ UNCHANGED <<backendVars, analyzed, input, cacheVars, visitorVars>>

SpecCommon == InitCommon /\ [][CommonRange]_vars

(***************************************************************************)
(* The cursor selector: SelectLocal walked over the functions of a file    *)
(* by Backend::decos, then the decoration pass over the same functions.    *)
(***************************************************************************)

\* the largest source position of an event range and of the cursor
MaxPos == 2
\* the functions of the file
MaxFns == 2
\* the locals of one function
MaxLocals == 2
\* the declarations, statements and terminators of the file
MaxVisits == 3

\* ASYNC_RESUME_TY, and a type that is not in it
ASYNC_RESUME_TY == {"std::future::ResumeTy", "impl std::future::Future<Output = ()>"}
Types == {"std::future::ResumeTy", "i32"}

FnLocal_new(id, fn_id) == [id |-> id, fn_id |-> fn_id]
FnLocals(fn_id) == {FnLocal_new(id, fn_id) : id \in 1..MaxLocals}

\* the ranges of the events of a file
Spans == {r \in Ranges : r.until <= MaxPos}
\* the range field of an event that carries none
NoSpan == [from |-> 0, until |-> 0]

\* one call of mir_visit on the visitor: visit_func, visit_decl (MirDecl::User
\* with its span, or MirDecl::Other), visit_stmt (an Assign whose rval is a
\* Move or a Borrow of target_local, or any other statement), visit_term (a
\* Call with destination_local and fn_span, or any other terminator)
FuncEvent(fn_id) ==
    [visit |-> "func", what |-> "Function", local |-> FnLocal_new(0, fn_id),
     range |-> NoSpan, ty |-> ""]
DeclEvents(fn_id) ==
    {[visit |-> "decl", what |-> "User", local |-> l, range |-> r, ty |-> t] :
        l \in FnLocals(fn_id), r \in Spans, t \in Types}
    \cup {[visit |-> "decl", what |-> "Other", local |-> l, range |-> NoSpan, ty |-> t] :
        l \in FnLocals(fn_id), t \in Types}
StmtEvents(fn_id) ==
    {[visit |-> "stmt", what |-> w, local |-> l, range |-> r, ty |-> ""] :
        w \in {"Move", "Borrow"}, l \in FnLocals(fn_id), r \in Spans}
    \cup {[visit |-> "stmt", what |-> "Other", local |-> FnLocal_new(0, fn_id),
           range |-> NoSpan, ty |-> ""]}
TermEvents(fn_id) ==
    {[visit |-> "term", what |-> "Call", local |-> l, range |-> r, ty |-> ""] :
        l \in FnLocals(fn_id), r \in Spans}
    \cup {[visit |-> "term", what |-> "Other", local |-> FnLocal_new(0, fn_id),
           range |-> NoSpan, ty |-> ""]}

\* SelectLocal.selected: Option<(SelectReason, FnLocal, Range)>
NoSelection == [some |-> FALSE, reason |-> "", local |-> FnLocal_new(0, 0), range |-> NoSpan]
Selection(reason, local, range) ==
    [some |-> TRUE, reason |-> reason, local |-> local, range |-> range]

SelectLocal_new(pos) ==
    [pos |-> pos, candidate_local_decls |-> <<>>, selected |-> NoSelection]

Contains(seq, x) == \E i \in 1..Len(seq) : seq[i] = x

\* the test of select that the range is at the cursor
AtCursor(self, range) == range.from <= self.pos /\ self.pos <= range.until

\* the arm (_, SelectReason::Var) of select
VarArm(old, range) == Range_size(range) < Range_size(old.range)

\* the arm (SelectReason::Var, _) of select
AfterVarArmNarrower(old, range) == Range_size(range) < Range_size(old.range)
AfterVarArm(old, range) == FALSE

\* the arm (_, SelectReason::Move | SelectReason::Borrow) of select
MoveBorrowArmOnTie(old, range) == Range_size(range) <= Range_size(old.range)
MoveBorrowArm(old, range) == Range_size(range) < Range_size(old.range)

\* does select replace the selection `old` by (reason, local, range)
Replaces(old, reason, range) ==
    CASE reason = "Var" -> VarArm(old, range)
      [] old.reason = "Var" -> AfterVarArm(old, range)
      [] reason \in {"Move", "Borrow"} -> MoveBorrowArm(old, range)
      [] old.reason = "Call" /\ reason = "Call" ->
            Range_size(old.range) < Range_size(range)
      [] OTHER -> FALSE

select(self, reason, local, range) ==
    IF ~Contains(self.candidate_local_decls, local) THEN self
    ELSE IF ~AtCursor(self, range) THEN self
    ELSE IF self.selected.some
         THEN IF Replaces(self.selected, reason, range)
              THEN [self EXCEPT !.selected = Selection(reason, local, range)]
              ELSE self
         ELSE [self EXCEPT !.selected = Selection(reason, local, range)]

SelectLocal_selected(self) ==
    IF self.selected.some THEN {self.selected.local} ELSE {}

SelectLocal_visit_decl(self, decl) ==
    IF decl.ty \in ASYNC_RESUME_TY THEN self
    ELSE LET pushed == [self EXCEPT !.candidate_local_decls = Append(@, decl.local)]
         IN  IF decl.what = "User"
             THEN select(pushed, "Var", decl.local, decl.range)
             ELSE pushed

SelectLocal_visit_stmt(self, stmt) ==
    IF stmt.what \in {"Move", "Borrow"}
    THEN select(self, stmt.what, stmt.local, stmt.range)
    ELSE self

SelectLocal_visit_term(self, term) ==
    IF term.what = "Call"
    THEN select(self, "Call", term.local, term.range)
    ELSE self

\* Deco as the visitor pushes it: the kind, the local, the range and
\* overlapped: false (ImmBorrow and MutBorrow differ by
\* the statement's flag only and are one kind here)
Deco(kind, local, range) ==
    [kind |-> kind, local |-> local, range |-> range, overlapped |-> FALSE]

CalcDecos_new(locals) == [locals |-> locals, decorations |-> <<>>, current_fn_id |-> 0]

\* the declarations of the files have no liveness, borrow or drop ranges, so
\* visit_decl pushes nothing
CalcDecos_visit_decl(self, decl) == [self EXCEPT !.current_fn_id = decl.local.fn_id]

CalcDecos_visit_stmt(self, stmt) ==
    IF stmt.what \in {"Move", "Borrow"} /\ stmt.local \in self.locals
    THEN [self EXCEPT !.decorations = Append(@, Deco(stmt.what, stmt.local, stmt.range))]
    ELSE self

\* the first loop of visit_term: an existing Call decoration makes it return
Dropped(decorations, fn_span) ==
    \E i \in 1..Len(decorations) :
        /\ decorations[i].kind = "Call"
        /\ is_super_range(fn_span, decorations[i].range)

\* a second loop that removes nothing
RetainedAll(decorations, fn_span) == decorations

\* the second loop of visit_term: the decorations that stay
RECURSIVE Retained(_, _)
Retained(decorations, fn_span) ==
    IF decorations = <<>> THEN <<>>
    ELSE IF /\ Head(decorations).kind = "Call"
            /\ is_super_range(Head(decorations).range, fn_span)
         THEN Retained(Tail(decorations), fn_span)
         ELSE <<Head(decorations)>> \o Retained(Tail(decorations), fn_span)

CalcDecos_visit_term(self, term) ==
    IF term.what = "Call" /\ term.local \in self.locals
    THEN IF Dropped(self.decorations, term.range) THEN self
         ELSE [self EXCEPT !.decorations =
                  Append(Retained(@, term.range), Deco("Call", term.local, term.range))]
    ELSE self

CalcDecos_visit(self, event) ==
    CASE event.visit = "decl" -> CalcDecos_visit_decl(self, event)
      [] event.visit = "stmt" -> CalcDecos_visit_stmt(self, event)
      [] event.visit = "term" -> CalcDecos_visit_term(self, event)
      [] OTHER -> self

\* mir_visit of every function of the file on one CalcDecos
RECURSIVE CalcDecos_walk(_, _)
CalcDecos_walk(self, events) ==
    IF events = <<>> THEN self
    ELSE CalcDecos_walk(CalcDecos_visit(self, Head(events)), Tail(events))

\* where the walk is: the function being visited, and whether its
\* declarations are still being visited
CurrentFn == Cardinality({i \in 1..Len(visited) : visited[i].visit = "func"})
InDecls == visited # <<>> /\ visited[Len(visited)].visit \in {"func", "decl"}
InFunction == visited # <<>>
Visits == Cardinality({i \in 1..Len(visited) : visited[i].visit # "func"})
Walking == calc_decos = <<>>
\* a function has one declaration for each of its locals
Declared(local) ==
    \E i \in 1..Len(visited) : visited[i].visit = "decl" /\ visited[i].local = local

InitSelect ==
    /\ BackendNew
    /\ NoCompile
    /\ input \in 0..MaxPos
    /\ output = <<>>
    /\ select_local = SelectLocal_new(input)
    /\ calc_decos = <<>>
    /\ visited = <<>>

\* mir_visit starts on the next function of the file
VisitFunc ==
    /\ Walking
    /\ CurrentFn < MaxFns
    /\ visited' = Append(visited, FuncEvent(CurrentFn + 1))
    /\ UNCHANGED <<backendVars, analyzed, input, output, cacheVars,
                   select_local, calc_decos>>

VisitDecl ==
    /\ Walking
    /\ InDecls
    /\ Visits < MaxVisits
    /\ \E decl \in DeclEvents(CurrentFn) :
          /\ ~Declared(decl.local)
          /\ select_local' = SelectLocal_visit_decl(select_local, decl)
          /\ visited' = Append(visited, decl)
    /\ UNCHANGED <<backendVars, analyzed, input, output, cacheVars, calc_decos>>

VisitStmt ==
    /\ Walking
    /\ InFunction
    /\ Visits < MaxVisits
    /\ \E stmt \in StmtEvents(CurrentFn) :
          /\ select_local' = SelectLocal_visit_stmt(select_local, stmt)
          /\ visited' = Append(visited, stmt)
    /\ UNCHANGED <<backendVars, analyzed, input, output, cacheVars, calc_decos>>

VisitTerm ==
    /\ Walking
    /\ InFunction
    /\ Visits < MaxVisits
    /\ \E term \in TermEvents(CurrentFn) :
          /\ select_local' = SelectLocal_visit_term(select_local, term)
          /\ visited' = Append(visited, term)
    /\ UNCHANGED <<backendVars, analyzed, input, output, cacheVars, calc_decos>>

\* the file is over: the decoration pass on the selected local
Decorate ==
    /\ Walking
    /\ calc_decos' = CalcDecos_walk(CalcDecos_new(SelectLocal_selected(select_local)),
                                    visited)
    /\ UNCHANGED <<backendVars, analyzed, input, output, cacheVars,
                   select_local, visited>>

NextSelect == VisitFunc \/ VisitDecl \/ VisitStmt \/ VisitTerm \/ Decorate

SpecSelect == InitSelect /\ [][NextSelect]_vars

(***************************************************************************)
(* The decoration pass: CalcDecos walked over one function, the selected   *)
(* local given.                                                            *)
(***************************************************************************)

InitCalcDecos ==
    /\ BackendNew
    /\ NoCompile
    /\ input \in FnLocals(1)
    /\ output = <<>>
    /\ select_local = <<>>
    /\ calc_decos = CalcDecos_new({input})
    /\ visited = <<FuncEvent(1)>>

CalcDecl ==
    /\ InDecls
    /\ Visits < MaxVisits
    /\ \E decl \in DeclEvents(1) :
          /\ ~Declared(decl.local)
          /\ calc_decos' = CalcDecos_visit_decl(calc_decos, decl)
          /\ visited' = Append(visited, decl)
    /\ UNCHANGED <<backendVars, analyzed, input, output, cacheVars, select_local>>

CalcStmt ==
    /\ Visits < MaxVisits
    /\ \E stmt \in StmtEvents(1) :
          /\ calc_decos' = CalcDecos_visit_stmt(calc_decos, stmt)
          /\ visited' = Append(visited, stmt)
    /\ UNCHANGED <<backendVars, analyzed, input, output, cacheVars, select_local>>

CalcTerm ==
    /\ Visits < MaxVisits
    /\ \E term \in TermEvents(1) :
          /\ calc_decos' = CalcDecos_visit_term(calc_decos, term)
          /\ visited' = Append(visited, term)
    /\ UNCHANGED <<backendVars, analyzed, input, output, cacheVars, select_local>>

NextCalcDecos == CalcDecl \/ CalcStmt \/ CalcTerm

SpecCalcDecos == InitCalcDecos /\ [][NextCalcDecos]_vars

(***************************************************************************)
(* The decorations of a declaration: the ranges the analyzer collects for  *)
(* a local, and CalcDecos::visit_decl on the declaration made of them.     *)
(***************************************************************************)

\* the largest position of a borrow range
MaxBorrowPos == 3
\* the shared and the mutable borrow ranges found for a local
MaxBorrows == 2
\* the live, drop and must-live ranges found for a local
MaxLives == 1

BorrowRanges == {r \in Ranges : r.until <= MaxBorrowPos}
Lists(S, n) == UNION {[1..k -> S] : k \in 0..n}

\* the pairs (i, j), i < j, of common_ranges, in its order
RECURSIVE CommonPairs(_, _, _)
CommonPairs(ranges, i, j) ==
    IF i > Len(ranges) THEN <<>>
    ELSE IF j > Len(ranges) THEN CommonPairs(ranges, i + 1, i + 2)
    ELSE Pushed(common_range(ranges[i], ranges[j])) \o CommonPairs(ranges, i, j + 1)

common_ranges(ranges) == eliminated_ranges(CommonPairs(ranges, 1, 2))

\* MirDecl, as collect_decls builds it from the ranges of get_accurate_live,
\* get_borrow_live, get_must_live and drop_range, each of which ends with
\* eliminated_ranges
MirDeclRaw(local, found) ==
    [local |-> local, lives |-> found.lives, shared_borrow |-> found.shared,
     mutable_borrow |-> found.mutable, drop |-> found.drop,
     drop_range |-> found.drop_range, must_live_at |-> found.must_live_at]
MirDecl(local, found) ==
    [local |-> local,
     lives |-> eliminated_ranges(found.lives),
     shared_borrow |-> eliminated_ranges(found.shared),
     mutable_borrow |-> eliminated_ranges(found.mutable),
     drop |-> found.drop,
     drop_range |-> eliminated_ranges(found.drop_range),
     must_live_at |-> eliminated_ranges(found.must_live_at)]

\* one decoration of the kind for each range
DecosOf(kind, local, ranges) == [i \in 1..Len(ranges) |-> Deco(kind, local, ranges[i])]

\* the borrow ranges visit_decl gives to common_ranges
BorrowRangesOf(decl) == decl.shared_borrow \o decl.mutable_borrow

\* what visit_decl pushes for a declaration of a selected local
DeclDecorations(decl) ==
    LET drop_copy_live == IF decl.drop THEN eliminated_ranges(decl.drop_range)
                          ELSE eliminated_ranges(decl.lives)
        shared_mut == common_ranges(BorrowRangesOf(decl))
        outlive == exclude_ranges(decl.must_live_at, drop_copy_live)
    IN  DecosOf("Lifetime", decl.local, drop_copy_live)
        \o DecosOf("SharedMut", decl.local, shared_mut)
        \o DecosOf("Outlive", decl.local, outlive)

CalcDecos_visit_mir_decl(self, decl) ==
    IF decl.local \in self.locals
    THEN [self EXCEPT !.current_fn_id = decl.local.fn_id,
                      !.decorations = @ \o DeclDecorations(decl)]
    ELSE [self EXCEPT !.current_fn_id = decl.local.fn_id]

InitVisitDecl ==
    /\ BackendNew
    /\ NoCompile
    /\ input \in [shared : Lists(BorrowRanges, MaxBorrows),
                  mutable : Lists(BorrowRanges, MaxBorrows),
                  lives : Lists(Spans, MaxLives),
                  drop : BOOLEAN,
                  drop_range : Lists(Spans, MaxLives),
                  must_live_at : Lists(Spans, MaxLives),
                  selected : BOOLEAN]
    /\ output = <<>>
    /\ select_local = <<>>
    /\ calc_decos = CalcDecos_new(IF input.selected THEN {FnLocal_new(1, 1)} ELSE {})
    /\ visited = <<>>

\* the analyzer makes the declaration of the local
CollectDecl ==
    /\ output = <<>>
    /\ output' = <<MirDecl(FnLocal_new(1, 1), input)>>
    /\ UNCHANGED <<backendVars, analyzed, input, cacheVars, visitorVars>>

\* the decoration pass visits it
CalcMirDecl ==
    /\ output # <<>>
    /\ visited = <<>>
    /\ calc_decos' = CalcDecos_visit_mir_decl(calc_decos, output[1])
    /\ visited' = <<FuncEvent(1)>>
    /\ UNCHANGED <<backendVars, analyzed, input, output, cacheVars, select_local>>

NextVisitDecl == CollectDecl \/ CalcMirDecl

SpecVisitDecl == InitVisitDecl /\ [][NextVisitDecl]_vars

(***************************************************************************)
(* CalcDecos::handle_overlapping on the decorations the visits collected.  *)
(***************************************************************************)

\* the decorations collected before handle_overlapping
MaxDecos == 3
\* the kinds they have, the first ones of the priority order
MaxKinds == 3
\* the largest position of their ranges
MaxDecoPos == 7

get_deco_order(kind) ==
    CASE kind = "Lifetime" -> 0
      [] kind = "ImmBorrow" -> 1
      [] kind = "MutBorrow" -> 2
      [] kind = "Move" -> 3
      [] kind = "Call" -> 4
      [] kind = "SharedMut" -> 5
      [] kind = "Outlive" -> 6

DecoKinds ==
    {k \in {"Lifetime", "ImmBorrow", "MutBorrow", "Move", "Call", "SharedMut", "Outlive"} :
        get_deco_order(k) < MaxKinds}
DecoRanges == {[from |-> a, until |-> b] : a \in 0..MaxDecoPos, b \in 0..MaxDecoPos} \cap
              {r \in [from : 0..MaxDecoPos, until : 0..MaxDecoPos] : r.from < r.until}
\* the decorations of the one selected local, as the visits push them
CollectedDecos == {Deco(k, FnLocal_new(1, 1), r) : k \in DecoKinds, r \in DecoRanges}

\* Vec::insert: None when the index is beyond the length (the call panics)
Panic == [panic |-> TRUE, list |-> <<>>]
Vec(list) == [panic |-> FALSE, list |-> list]
InsertAt(list, index, x) ==
    IF index > Len(list) THEN Panic
    ELSE Vec(SubSeq(list, 1, index) \o <<x>> \o SubSeq(list, index + 1, Len(list)))

\* sort_by_key is stable: a decoration goes after those of its own order
RECURSIVE sort_by_definition(_)
sort_by_definition(decorations) ==
    IF decorations = <<>> THEN <<>>
    ELSE LET n == Len(decorations)
             sorted == sort_by_definition(SubSeq(decorations, 1, n - 1))
             x == decorations[n]
             before == Cardinality({i \in 1..Len(sorted) :
                          get_deco_order(sorted[i].kind) <= get_deco_order(x.kind)})
         IN  SubSeq(sorted, 1, before) \o <<x>> \o SubSeq(sorted, before + 1, Len(sorted))

with_range(deco, new_range, overlapped) ==
    [deco EXCEPT !.range = new_range, !.overlapped = overlapped]

NoOverlap == [some |-> FALSE, overlapped_deco |-> <<>>, new_decos |-> <<>>]
\* the split of prev by the range of the current decoration
Split(prev, current_range) ==
    LET common == common_range(current_range, prev.range)
    IN  IF ~common.some THEN NoOverlap
        ELSE LET non_overlapping == exclude_ranges(<<prev.range>>, <<Unwrap(common)>>)
             IN  [some |-> TRUE,
                  overlapped_deco |-> with_range(prev, Unwrap(common), TRUE),
                  new_decos |-> [i \in 1..Len(non_overlapping) |->
                                    with_range(prev, non_overlapping[i], FALSE)]]
process_overlap_again(prev, current_range) == Split(prev, current_range)
process_overlap(prev, current_range) ==
    IF prev.overlapped THEN NoOverlap
    ELSE Split(prev, current_range)

\* the loop over result.iter_mut(): the list with the overlapped pieces in
\* place, and the insertions (0-based position j + 1, remainders) collected
RECURSIVE Overlaps(_, _, _)
Overlaps(result, current_range, j) ==
    IF j > Len(result) THEN [result |-> result, insertions |-> <<>>]
    ELSE LET o == process_overlap(result[j], current_range)
             rest == Overlaps(result, current_range, j + 1)
         IN  IF ~o.some THEN rest
             ELSE [result |-> [rest.result EXCEPT ![j] = o.overlapped_deco],
                   insertions |->
                       (IF o.new_decos = <<>> THEN <<>>
                        ELSE <<[pos |-> j, decos |-> o.new_decos]>>) \o rest.insertions]

\* result.insert(insert_pos + k, deco) for the decorations of one insertion
RECURSIVE InsertDecos(_, _, _, _)
InsertDecos(vec, insert_pos, decos, k) ==
    IF vec.panic \/ k > Len(decos) THEN vec
    ELSE InsertDecos(InsertAt(vec.list, insert_pos + (k - 1), decos[k]),
                     insert_pos, decos, k + 1)

\* let insert_pos = pos + offset * decos.len()
insert_pos_last(result, pos, offset, decos) == Len(result)
insert_pos_next(result, pos, offset, decos) == pos + 1 + offset * Len(decos)
insert_pos(result, pos, offset, decos) == pos + offset * Len(decos)

\* the loop over insertions.into_iter().enumerate()
RECURSIVE Insertions(_, _, _)
Insertions(vec, insertions, n) ==
    IF vec.panic \/ n > Len(insertions) THEN vec
    ELSE LET offset == n - 1
             at == insert_pos(vec.list, insertions[n].pos, offset, insertions[n].decos)
         IN  Insertions(InsertDecos(vec, at, insertions[n].decos, 1),
                        insertions, n + 1)

\* one turn of the loop of handle_overlapping, for the decoration current
Current(result, current) ==
    IF Contains(result, current) THEN Vec(result)
    ELSE LET found == Overlaps(result, current.range, 1)
             vec == Insertions(Vec(found.result), found.insertions, 1)
         IN  IF vec.panic THEN Panic ELSE Vec(Append(vec.list, current))

RECURSIVE Pass(_, _)
Pass(vec, decorations) ==
    IF vec.panic \/ decorations = <<>> THEN vec
    ELSE Pass(Current(vec.list, Head(decorations)), Tail(decorations))

handle_overlapping(decorations) == Pass(Vec(<<>>), sort_by_definition(decorations))

\* the Lifetime decorations of a local are the ranges eliminated_ranges left
\* in visit_decl: no two of them overlap or are adjacent; the borrows are
\* those of any statements
Collectable(decorations) ==
    \A i, k \in 1..Len(decorations) :
        (i # k /\ decorations[i].kind = "Lifetime" /\ decorations[k].kind = "Lifetime")
        => ~(/\ decorations[i].range.from <= decorations[k].range.until
             /\ decorations[k].range.from <= decorations[i].range.until)

InitOverlap ==
    /\ BackendNew
    /\ NoCompile
    /\ input \in {list \in Lists(CollectedDecos, MaxDecos) : Collectable(list)}
    /\ output = "collected"
    /\ select_local = <<>>
    /\ calc_decos = [CalcDecos_new({FnLocal_new(1, 1)}) EXCEPT !.decorations = input]
    /\ visited = <<>>

\* calc.handle_overlapping() returns or panics; mem::take has emptied the
\* list when it panics
HandleOverlapping ==
    /\ output = "collected"
    /\ LET vec == handle_overlapping(calc_decos.decorations)
       IN  /\ calc_decos' = [calc_decos EXCEPT !.decorations = vec.list]
           /\ output' = IF vec.panic THEN "panic" ELSE "done"
    /\ UNCHANGED <<backendVars, analyzed, input, cacheVars, select_local, visited>>

SpecOverlap == InitOverlap /\ [][HandleOverlapping]_vars

(***************************************************************************)
(* Loc + i32 and Loc - i32, with the casts and the unsigned arithmetic of  *)
(* the implementation.  Loc is a u32 and the delta an i32; the model keeps *)
(* the same arithmetic at a narrower width.                                *)
(***************************************************************************)

\* the width, in bits, of the offset and of the delta
LocBits == 4

Modulus == 2 ^ LocBits
Unsigned == 0..(Modulus - 1)
Signed == (-(Modulus \div 2))..((Modulus \div 2) - 1)

\* `x as i32` of an unsigned x, `x as u32` of a signed x
AsSigned(x) == IF x >= Modulus \div 2 THEN x - Modulus ELSE x
AsUnsigned(x) == x % Modulus

\* an arithmetic result: the value, or the panic of a build with overflow
\* checks
Value(x) == [panic |-> FALSE, value |-> x]
Overflow == [panic |-> TRUE, value |-> 0]

\* unsigned + and -, signed negation: the exact result when it fits; when it
\* does not, a panic or the wrapped result, as the build has it
UnsignedAdd(a, b) ==
    IF a + b \in Unsigned THEN {Value(a + b)}
    ELSE {Overflow, Value((a + b) % Modulus)}
UnsignedSub(a, b) ==
    IF a - b \in Unsigned THEN {Value(a - b)}
    ELSE {Overflow, Value((a - b) % Modulus)}
SignedNeg(a) ==
    IF -a \in Signed THEN {Value(-a)}
    ELSE {Overflow, Value(AsSigned((-a) % Modulus))}

\* impl Add<i32> for Loc: the outcomes of loc + rhs
Loc_Add(loc, rhs) ==
    IF rhs < 0
    THEN UNION {IF neg.panic THEN {Overflow}
                ELSE IF AsSigned(loc) < neg.value THEN {Value(0)}
                ELSE UnsignedAdd(loc, AsUnsigned(rhs)) : neg \in SignedNeg(rhs)}
    ELSE UnsignedAdd(loc, AsUnsigned(rhs))

\* impl Sub<i32> for Loc: the outcomes of loc - rhs
Loc_Sub(loc, rhs) ==
    IF 0 < rhs /\ AsSigned(loc) < rhs THEN {Value(0)}
    ELSE UnsignedSub(loc, AsUnsigned(rhs))

InitLoc ==
    /\ BackendNew
    /\ NoCompile
    /\ NoVisitor
    /\ input \in [loc : Unsigned, rhs : Signed]
    /\ output = [op |-> "none"]

LocPlus ==
    /\ output.op = "none"
    /\ \E result \in Loc_Add(input.loc, input.rhs) :
          output' = [op |-> "add", result |-> result]
    /\ UNCHANGED <<backendVars, analyzed, input, cacheVars, visitorVars>>

LocMinus ==
    /\ output.op = "none"
    /\ \E result \in Loc_Sub(input.loc, input.rhs) :
          output' = [op |-> "sub", result |-> result]
    /\ UNCHANGED <<backendVars, analyzed, input, cacheVars, visitorVars>>

NextLoc == LocPlus \/ LocMinus

SpecLoc == InitLoc /\ [][NextLoc]_vars

(***************************************************************************)
(* Range::new on any pair of positions, and the range operations on the    *)
(* ranges it made.                                                         *)
(***************************************************************************)

\* the pairs of positions given to Range::new
MaxPairs == 3

Positions == [from : 0..MaxLoc, until : 0..MaxLoc]

\* the ranges Range::new made of the pairs, in order
RECURSIVE Made(_)
Made(pairs) ==
    IF pairs = <<>> THEN <<>>
    ELSE Pushed(Range_new(Head(pairs).from, Head(pairs).until)) \o Made(Tail(pairs))

Options(ranges) == [i \in 1..Len(ranges) |-> SomeRange(ranges[i])]

InitRange ==
    /\ BackendNew /\ NoCompile /\ NoVisitor
    /\ input \in [1..MaxPairs -> Positions]
    /\ output = [op |-> "none", ranges |-> <<>>]

RangeNew ==
    /\ output.op = "none"
    /\ output' = [op |-> "new", ranges |-> <<Range_new(input[1].from, input[1].until)>>]
    /\ UNCHANGED <<backendVars, analyzed, input, cacheVars, visitorVars>>

CommonOfMade ==
    /\ output.op = "none"
    /\ Len(Made(input)) >= 2
    /\ output' = [op |-> "common",
                  ranges |-> <<common_range(Made(input)[1], Made(input)[2])>>]
    /\ UNCHANGED <<backendVars, analyzed, input, cacheVars, visitorVars>>

MergeOfMade ==
    /\ output.op = "none"
    /\ Len(Made(input)) >= 2
    /\ output' = [op |-> "merge",
                  ranges |-> <<merge_ranges(Made(input)[1], Made(input)[2])>>]
    /\ UNCHANGED <<backendVars, analyzed, input, cacheVars, visitorVars>>

EliminatedOfMade ==
    /\ output.op = "none"
    /\ output' = [op |-> "eliminated",
                  ranges |-> Options(eliminated_ranges(Made(input)))]
    /\ UNCHANGED <<backendVars, analyzed, input, cacheVars, visitorVars>>

\* the last range made is excluded from the others
ExcludedOfMade ==
    /\ output.op = "none"
    /\ Made(input) # <<>>
    /\ LET made == Made(input)
       IN  output' = [op |-> "excluded",
                      ranges |-> Options(exclude_ranges(SubSeq(made, 1, Len(made) - 1),
                                                        <<made[Len(made)]>>))]
    /\ UNCHANGED <<backendVars, analyzed, input, cacheVars, visitorVars>>

NextRange == RangeNew \/ CommonOfMade \/ MergeOfMade \/ EliminatedOfMade \/ ExcludedOfMade

SpecRange == InitRange /\ [][NextRange]_vars

(***************************************************************************)
(* mir_transform.rs: the basic blocks kept of a function body, and the     *)
(* conversion of the (start, mid) locations of a variable to ranges.       *)
(***************************************************************************)

\* basic blocks of the function body
MaxBlocks == 1
\* statements of a basic block in the front end
MaxStmts == 2
\* rich locations of one variable
MaxRich == 4

\* a statement of the front end: its span is visible or not, and
\* range_from_span makes a range of it or not; the i-th statement or
\* terminator (from 0) of a block spans [i, i + 1)
FrontStatements == [visible : BOOLEAN, ranged : BOOLEAN]
FrontBlocks ==
    [statements : UNION {[1..k -> FrontStatements] : k \in 0..MaxStmts},
     terminator : [ranged : BOOLEAN]]
FrontBodies == [1..MaxBlocks -> FrontBlocks]

SpanAt(i) == [from |-> i, until |-> i + 1]

\* range_from_span on the span of the i-th statement or terminator
range_from_span(ranged, i) ==
    IF ranged THEN Range_new(SpanAt(i).from, SpanAt(i).until) ELSE NoRange

\* the statements kept of a block: filter by is_visible, then filter_map by
\* convert_statement
RECURSIVE KeptStatements(_, _)
KeptStatements(statements, i) ==
    IF i > Len(statements) THEN <<>>
    ELSE (IF statements[i].visible
          THEN Pushed(range_from_span(statements[i].ranged, i - 1))
          ELSE <<>>)
         \o KeptStatements(statements, i + 1)

\* convert_terminator
convert_terminator(bb_data) ==
    range_from_span(bb_data.terminator.ranged, Len(bb_data.statements))

MirBasicBlock(bb_data) ==
    [statements |-> KeptStatements(bb_data.statements, 1),
     terminator |-> convert_terminator(bb_data)]

collect_basic_blocks(body) == [b \in 1..Len(body) |-> MirBasicBlock(body[b])]

\* statement_location_to_range; blocks and statements are numbered from 0
statement_location_to_range(basic_blocks, basic_block, statement) ==
    IF basic_block >= Len(basic_blocks) THEN NoRange
    ELSE LET bb == basic_blocks[basic_block + 1]
         IN  IF statement < Len(bb.statements)
             THEN SomeRange(bb.statements[statement + 1])
             ELSE bb.terminator

\* RichLocation::Start and RichLocation::Mid of a Location
RichLocations ==
    [kind : {"Start", "Mid"}, block : 0..MaxBlocks, statement_index : 0..MaxStmts]

\* the (block, statement_index) of the locations of one kind, in order
RECURSIVE OfKind(_, _)
OfKind(locations, kind) ==
    IF locations = <<>> THEN <<>>
    ELSE (IF Head(locations).kind = kind
          THEN <<[block |-> Head(locations).block,
                  statement_index |-> Head(locations).statement_index]>>
          ELSE <<>>)
         \o OfKind(Tail(locations), kind)

LocBefore(a, b) ==
    \/ a.block < b.block
    \/ a.block = b.block /\ a.statement_index <= b.statement_index

\* sort_locs: a stable sort by block, then by statement index
RECURSIVE sort_locs(_)
sort_locs(v) ==
    IF v = <<>> THEN <<>>
    ELSE LET rest == sort_locs(SubSeq(v, 1, Len(v) - 1))
             last == v[Len(v)]
             k == Cardinality({i \in 1..Len(rest) : LocBefore(rest[i], last)})
         IN  SubSeq(rest, 1, k) \o <<last>> \o SubSeq(rest, k + 1, Len(rest))

\* starts.zip(mids)
Zip(starts, mids) ==
    [k \in 1..Min(Len(starts), Len(mids)) |-> [start |-> starts[k], mid |-> mids[k]]]

ZippedLocations(locations) ==
    Zip(sort_locs(OfKind(locations, "Start")), sort_locs(OfKind(locations, "Mid")))

\* the closure given to filter_map
PairRange(basic_blocks, pair) ==
    LET sr == statement_location_to_range(basic_blocks, pair.start.block,
                                          pair.start.statement_index)
        mr == statement_location_to_range(basic_blocks, pair.mid.block,
                                          pair.mid.statement_index)
    IN  IF sr.some /\ mr.some THEN Range_new(sr.from, mr.until) ELSE NoRange

RECURSIVE FilterMapPairs(_, _)
FilterMapPairs(basic_blocks, pairs) ==
    IF pairs = <<>> THEN <<>>
    ELSE Pushed(PairRange(basic_blocks, Head(pairs)))
         \o FilterMapPairs(basic_blocks, Tail(pairs))

rich_locations_to_ranges(basic_blocks, locations) ==
    FilterMapPairs(basic_blocks, ZippedLocations(locations))

InitLocations ==
    /\ BackendNew /\ NoCompile /\ NoVisitor
    /\ input \in FrontBodies
    /\ output = [op |-> "none"]

CollectBasicBlocks ==
    /\ output.op = "none"
    /\ output' = [op |-> "collected", basic_blocks |-> collect_basic_blocks(input)]
    /\ UNCHANGED <<backendVars, analyzed, input, cacheVars, visitorVars>>

RichLocationsToRanges ==
    /\ output.op = "collected"
    /\ \E locations \in UNION {[1..k -> RichLocations] : k \in 0..MaxRich} :
          output' = [op |-> "converted",
                     basic_blocks |-> output.basic_blocks,
                     locations |-> locations,
                     ranges |-> rich_locations_to_ranges(output.basic_blocks, locations)]
    /\ UNCHANGED <<backendVars, analyzed, input, cacheVars, visitorVars>>

NextLocations == CollectBasicBlocks \/ RichLocationsToRanges

SpecLocations == InitLocations /\ [][NextLocations]_vars

(***************************************************************************)
(* The orchestrator under fair scheduling: the runtime runs every task     *)
(* that can take a step.  The arrival of requests and the output of the    *)
(* front ends are the environment's.                                       *)
(***************************************************************************)
\* a step of a handler, a job or a finalizer task
TaskStep ==
    \/ \E h \in Handlers :
          \/ ShutdownTokens(h) \/ ShutdownProcesses(h)
          \/ SetStatus(h) \/ ReadAnalyzers(h) \/ InsertToken(h) \/ SpawnJob(h)
          \/ CursorStatus(h) \/ CursorDecos(h)
          \/ FinalizerLock(h) \/ FinalizerJoinSome(h) \/ FinalizerJoinNone(h)
          \/ FinalizerDecide(h)
    \/ \E j \in Jobs :
          \/ JobObserveCancel(j) \/ JobRecv(j) \/ JobEndOfStream(j)
          \/ JobMerge(j) \/ JobRemoveToken(j)

\* a front end closes its output
FrontEndCloses == \E j \in Jobs : ReaderClose(j)

\* fair scheduling of the tasks
SpecFair == Spec /\ WF_vars(TaskStep)

\* fair scheduling, and every front end eventually closes its output
SpecFairClosing == Spec /\ WF_vars(TaskStep) /\ WF_vars(FrontEndCloses)

(***************************************************************************)
(* lsp/backend.rs: the ownership commands of workspace/executeCommand      *)
(* (handle_execute_command).  Requests are served concurrently: a handler  *)
(* updates the flag under ownership_state.write(), drops the guard, and    *)
(* only then notifies the client.                                          *)
(***************************************************************************)
\* executeCommand requests
MaxCommands == 3

CMD_TOGGLE_OWNERSHIP == "rustowl.toggleOwnership"
CMD_ENABLE_OWNERSHIP == "rustowl.enableOwnership"
CMD_DISABLE_OWNERSHIP == "rustowl.disableOwnership"
OwnershipCommands == {CMD_TOGGLE_OWNERSHIP, CMD_ENABLE_OWNERSHIP, CMD_DISABLE_OWNERSHIP}

\* OwnershipState::default(): no file has an entry
OwnershipState_default == [f \in FileNames |-> "absent"]

\* enabled_files.get(path).is_some_and(|(enabled, _)| *enabled)
IsEnabled(enabled_files, path) == enabled_files[path] = "true"

\* the flag the command leaves for the file
NewFlag(command, enabled_files, path) ==
    CASE command = CMD_TOGGLE_OWNERSHIP -> ~IsEnabled(enabled_files, path)
      [] command = CMD_ENABLE_OWNERSHIP -> TRUE
      [] command = CMD_DISABLE_OWNERSHIP -> FALSE

FlagEntry(enabled) == IF enabled THEN "true" ELSE "false"

\* publish_ownership_diagnostics: nothing is sent when the file cannot be read
publish_ownership_diagnostics(diagnostics, path, readable) ==
    IF readable THEN [diagnostics EXCEPT ![path] = "published"] ELSE diagnostics

\* clear_ownership_diagnostics
clear_ownership_diagnostics(diagnostics, path) ==
    [diagnostics EXCEPT ![path] = "cleared"]

\* the server starts: no flag, and the client has no diagnostics of any file
InitOwnership ==
    /\ BackendNew /\ NoCompile /\ NoVisitor
    /\ input = <<>>
    /\ output = [enabled_files |-> OwnershipState_default,
                 diagnostics |-> [f \in FileNames |-> "none"],
                 commands |-> <<>>]

\* a command arrives with arguments that parse; the flag is updated under
\* the write guard and the guard is dropped
ExecuteCommand ==
    /\ Len(output.commands) < MaxCommands
    /\ \E command \in OwnershipCommands, path \in FileNames :
          LET enabled == NewFlag(command, output.enabled_files, path)
          IN  output' = [output EXCEPT
                 !.enabled_files[path] = FlagEntry(enabled),
                 !.commands = Append(output.commands,
                     [command |-> command, path |-> path, pc |-> "notify",
                      before |-> IsEnabled(output.enabled_files, path),
                      enabled |-> enabled])]
    /\ UNCHANGED <<backendVars, analyzed, input, cacheVars, visitorVars>>

\* the handler notifies the client and answers {"enabled": enabled}
NotifyClient(i) ==
    /\ i \in 1..Len(output.commands)
    /\ output.commands[i].pc = "notify"
    /\ \E readable \in BOOLEAN :
          output' = [output EXCEPT
             !.diagnostics =
                 IF output.commands[i].enabled
                 THEN publish_ownership_diagnostics(output.diagnostics,
                                                    output.commands[i].path, readable)
                 ELSE clear_ownership_diagnostics(output.diagnostics,
                                                  output.commands[i].path),
             !.commands[i].pc = "done"]
    /\ UNCHANGED <<backendVars, analyzed, input, cacheVars, visitorVars>>

NextOwnership == ExecuteCommand \/ \E i \in 1..MaxCommands : NotifyClient(i)

SpecOwnership == InitOwnership /\ [][NextOwnership]_vars

(***************************************************************************)
(* text_conversion.rs: index_to_line_char and line_char_to_index.          *)
(***************************************************************************)
\* characters of a text
MaxText == 3

Chars == {"a", "LF", "CR"}
Texts == UNION {[1..k -> Chars] : k \in 0..MaxText}

\* s.replace('\r', "")
RECURSIVE WithoutCR(_)
WithoutCR(s) ==
    IF s = <<>> THEN <<>>
    ELSE (IF Head(s) = "CR" THEN <<>> ELSE <<Head(s)>>) \o WithoutCR(Tail(s))

\* the loop of index_to_line_char from character i (from 0) on
RECURSIVE IndexLoop(_, _, _, _, _)
IndexLoop(chars, idx, i, line, col) ==
    IF i >= Len(chars) THEN [line |-> 0, character |-> 0]
    ELSE IF idx = i THEN [line |-> line, character |-> col]
    ELSE IF chars[i + 1] = "LF" THEN IndexLoop(chars, idx, i + 1, line + 1, 0)
    ELSE IF chars[i + 1] # "CR" THEN IndexLoop(chars, idx, i + 1, line, col + 1)
    ELSE IndexLoop(chars, idx, i + 1, line, col)

index_to_line_char(s, idx) == IndexLoop(WithoutCR(s), idx, 0, 0, 0)

\* the loop of line_char_to_index from character i (from 0) on
RECURSIVE LineCharLoop(_, _, _, _, _)
LineCharLoop(chars, line, char, i, col) ==
    IF i >= Len(chars) THEN 0
    ELSE IF line = 0 /\ col = char THEN i
    ELSE IF chars[i + 1] = "LF" /\ 0 < line
         THEN LineCharLoop(chars, line - 1, char, i + 1, 0)
    ELSE IF chars[i + 1] # "CR" THEN LineCharLoop(chars, line, char, i + 1, col + 1)
    ELSE LineCharLoop(chars, line, char, i + 1, col)

line_char_to_index(s, line, char) == LineCharLoop(WithoutCR(s), line, char, 0, 0)

InitText ==
    /\ BackendNew /\ NoCompile /\ NoVisitor
    /\ input \in [s : Texts, idx : 0..MaxText]
    /\ output = [op |-> "none"]

IndexToLineChar ==
    /\ output.op = "none"
    /\ output' = [op |-> "position", position |-> index_to_line_char(input.s, input.idx)]
    /\ UNCHANGED <<backendVars, analyzed, input, cacheVars, visitorVars>>

LineCharToIndex ==
    /\ output.op = "position"
    /\ output' = [op |-> "index", position |-> output.position,
                  index |-> line_char_to_index(input.s, output.position.line,
                                               output.position.character)]
    /\ UNCHANGED <<backendVars, analyzed, input, cacheVars, visitorVars>>

NextText == IndexToLineChar \/ LineCharToIndex

SpecText == InitText /\ [][NextText]_vars

(***************************************************************************)
(* lsp/decoration.rs: CalcDecos::handle_overlapping, which works on the    *)
(* list in place.  Indices are those of the source, from 0.                *)
(***************************************************************************)
\* the loop `while j < i` for the decoration at i, whose range was read
\* before the loop; removed says that the loop ended by remove(i)
RECURSIVE InPlaceInner(_, _, _, _)
InPlaceInner(decorations, i, j, current_range) ==
    IF j >= i THEN [decorations |-> decorations, removed |-> FALSE]
    ELSE LET prev == decorations[j + 1]
         IN  IF prev = decorations[i + 1]
             THEN [decorations |-> SubSeq(decorations, 1, i)
                                   \o SubSeq(decorations, i + 2, Len(decorations)),
                   removed |-> TRUE]
             ELSE IF prev.overlapped
             THEN InPlaceInner(decorations, i, j + 1, current_range)
             ELSE LET common == common_range(current_range, prev.range)
                  IN  IF ~common.some
                      THEN InPlaceInner(decorations, i, j + 1, current_range)
                      ELSE LET non_overlapping ==
                                   exclude_ranges(<<prev.range>>, <<Unwrap(common)>>)
                               new_decos ==
                                   [k \in 1..Len(non_overlapping) |->
                                       with_range(prev, non_overlapping[k], FALSE)]
                               marked ==
                                   [decorations EXCEPT
                                       ![j + 1] = with_range(prev, Unwrap(common), TRUE)]
                           IN  InPlaceInner(SubSeq(marked, 1, j + 1) \o new_decos
                                            \o SubSeq(marked, j + 2, Len(marked)),
                                            i, j + 1, current_range)

\* the loop 'outer from i on
RECURSIVE InPlaceOuter(_, _)
InPlaceOuter(decorations, i) ==
    IF i >= Len(decorations) THEN decorations
    ELSE LET turn == InPlaceInner(decorations, i, 0, decorations[i + 1].range)
         IN  IF turn.removed THEN InPlaceOuter(turn.decorations, i)
             ELSE InPlaceOuter(turn.decorations, i + 1)

handle_overlapping_in_place(decorations) ==
    InPlaceOuter(sort_by_definition(decorations), 1)

\* the same decorations are given to both versions
\* the largest number of decorations given to the two versions
MaxBothDecos == 5
\* the spans of a body of two statements, [0, 5) and [5, 7), each with one
\* inner expression, [2, 3) and [5, 6)
BodySpans == {[from |-> 0, until |-> 5], [from |-> 2, until |-> 3],
              [from |-> 5, until |-> 7], [from |-> 5, until |-> 6]}
BodyDecos == {Deco(k, FnLocal_new(1, 1), r) : k \in DecoKinds, r \in BodySpans}

InitBoth ==
    /\ BackendNew /\ NoCompile /\ NoVisitor
    /\ input \in {list \in Lists(BodyDecos, MaxBothDecos) : Collectable(list)}
    /\ output = [in_place |-> Vec(input), accumulating |-> Vec(input), handled |-> {}]

HandleOverlappingInPlace ==
    /\ "in_place" \notin output.handled
    /\ output' = [output EXCEPT !.in_place = Vec(handle_overlapping_in_place(input)),
                                !.handled = @ \cup {"in_place"}]
    /\ UNCHANGED <<backendVars, analyzed, input, cacheVars, visitorVars>>

HandleOverlappingAccumulating ==
    /\ "accumulating" \notin output.handled
    /\ output' = [output EXCEPT !.accumulating = handle_overlapping(input),
                                !.handled = @ \cup {"accumulating"}]
    /\ UNCHANGED <<backendVars, analyzed, input, cacheVars, visitorVars>>

NextBoth == HandleOverlappingInPlace \/ HandleOverlappingAccumulating

SpecBoth == InitBoth /\ [][NextBoth]_vars

(***************************************************************************)
(* Claims                                                                  *)
(***************************************************************************)
Files(agg) == {f \in FileNames : agg.some /\ agg.crate[f].present}
AllFunctions(agg) == UNION {Range(agg.crate[f].items) : f \in Files(agg)}

\* two entries of a function list carry the same fn_id
HasDuplicate(items) ==
    \E i, k \in 1..Len(items) : i < k /\ items[i].fn_id = items[k].fn_id

\* C1: after any sequence of merges of fragments into the aggregate, no file's
\* function list holds two entries with the same fn_id.
C1_NoDuplicateFnId ==
    \A f \in Files(analyzed) : ~HasDuplicate(analyzed.crate[f].items)

\* C2: when the merged fragment's function has a fn_id the file already holds,
\* the aggregate afterwards holds the merged (new) function under that fn_id
\* and no other one.
C2_MergeReplacesPrevious ==
    [][LET fn == input'.fn
           old == analyzed.crate[input'.file].items
           new == analyzed'.crate[input'.file].items
       IN  (analyzed.some /\ \E i \in 1..Len(old) : old[i].fn_id = fn.fn_id)
           => /\ \E i \in 1..Len(new) : new[i] = fn
              /\ \A i \in 1..Len(new) : new[i].fn_id = fn.fn_id => new[i] = fn]_vars

\* C3: at every moment at most one job per target is running.
C3_OneJobPerTarget ==
    \A j1, j2 \in Jobs :
        (j1 # j2 /\ Running(j1) /\ Running(j2)) => jobs[j1].target # jobs[j2].target

\* C4: when a job that was not cancelled has left its event loop, no Analyzed
\* event the reader had put on its channel is left there unmerged.
C4_NoFragmentDropped ==
    \A j \in Jobs :
        (jobs[j].pc = "remove" /\ ~jobs[j].cancelled)
        => \A i \in 1..Len(chan[j]) : chan[j][i].kind # "Analyzed"

DidChangeReturned ==
    /\ \E h \in Handlers : handlers[h].kind = "did_change"
    /\ \A h \in Handlers : handlers[h].kind = "did_change" => handlers[h].pc = "done"

\* C5: once did_change has returned, the aggregate holds no function merged by
\* a job that was spawned before the change.
C5_NoStaleResultAfterChange ==
    DidChangeReturned => \A fn \in AllFunctions(analyzed) : fn.ver \notin changeMark

\* no handler is in flight, no job is running, every finalizer has run
Quiescent ==
    /\ \A h \in Handlers : handlers[h].pc \in {"idle", "done"}
    /\ \A j \in Jobs : jobs[j].pc \in {"unused", "done", "aborted"}
    /\ \A h \in Handlers : finalizers[h] \in {"none", "done"}

\* C6: when every job of the batches has ended and every finalizer has run, the
\* status is Error if the aggregate holds no file and Finished otherwise.  The
\* claim is stated here for the runs without a document change, which it
\* covers: only batches and their finalizers interleave.
C6_StatusMatchesAggregate ==
    (Quiescent /\ lastBatch # 0 /\ \A h \in Handlers : handlers[h].kind # "did_change")
    => status = IF Files(analyzed) = {} THEN "Error" ELSE "Finished"

BatchJobs(h) == {j \in Jobs : jobs[j].batch = h}

\* every front end of the batch closed its output without a workspace fragment
\* and its job ran to its end
BatchFailed(h) ==
    /\ BatchJobs(h) # {}
    /\ \A j \in BatchJobs(h) :
          /\ jobs[j].pc = "done" /\ ~jobs[j].cancelled
          /\ reader[j].pc = "closed" /\ reader[j].nfrag = 0

\* C7: if every front end of the latest batch failed without producing a
\* fragment, the status after the batch is Error, whatever the aggregate held.
C7_FailedBatchIsError ==
    (Quiescent /\ lastBatch # 0 /\ BatchFailed(lastBatch)) => status = "Error"

\* join_next().await is pending: the set holds tasks and none has ended
AwaitingJob == processes # {} /\ \A j \in processes : ~Finished(j)

\* C8: no task keeps a shared lock while it is suspended awaiting something
\* else; here, the processes lock while awaiting a job's completion.
C8_NoLockAcrossAwait ==
    \A h \in Handlers :
        ~(held = FinalizerTask(h) /\ finalizers[h] = "joining" /\ AwaitingJob)

\* the step is the merge of job j's pending fragment
IsMergeBy(j) ==
    /\ jobs[j].pc = "merge"
    /\ analyzed' = MergeEvent(analyzed,
                      Fragment(FileOf(jobs[j].target), Function(jobs[j].ev, j)))

\* the step is made by shutdown_subprocesses in handler h
IsShutdownStep(h) ==
    handlers[h].pc \in {"sd_tok", "sd_lock"} /\ handlers'[h] # handlers[h]

\* C9: a job that has observed its cancellation merges nothing more, and the
\* steps of shutdown_subprocesses leave the aggregate as it is.
C9_CancelKeepsMerged ==
    [][/\ analyzed' # analyzed
          => \/ analyzed' = None
             \/ \E j \in Jobs : ~jobs[j].observed /\ IsMergeBy(j)
       /\ \A h \in Handlers : IsShutdownStep(h) => analyzed' = analyzed]_vars

\* a job has observed its cancellation after it merged a fragment, which the
\* aggregate still holds
C9_Witness ==
    \E j \in Jobs :
        /\ jobs[j].observed
        /\ \E fn \in AllFunctions(analyzed) : fn.ver = j

CursorAnswered(h) ==
    /\ handlers[h].kind = "cursor" /\ handlers[h].pc = "done"
    /\ handlers[h].resp.decorations = 0

\* the status the claim gives for a query without decorations
ClaimedStatus(st, hasFns) == IF st = "Finished" /\ ~hasFns THEN "Error" ELSE st

\* C10 (as stated): for every query of a file that yields no decorations, the
\* reported status is Error when the stored status is Finished and the file
\* has no analyzed function, and the stored status otherwise.
C10_StatusOfEmptyQuery ==
    \A h \in Handlers :
        (CursorAnswered(h) /\ handlers[h].path # NoPath)
        => handlers[h].resp.status = ClaimedStatus(handlers[h].st, handlers[h].hadFns)

\* C10 (amended): that holds for a query whose document could be read; a query
\* without a readable document is answered with the stored status.
C10_StatusOfEmptyQueryReadable ==
    \A h \in Handlers :
        CursorAnswered(h)
        => handlers[h].resp.status =
              IF handlers[h].readable
              THEN ClaimedStatus(handlers[h].st, handlers[h].hadFns)
              ELSE handlers[h].st

\* a readable file without analyzed functions was queried while the stored
\* status was Finished: no decorations, and Error was reported for it
C10_Witness ==
    \E h \in Handlers :
        /\ CursorAnswered(h) /\ handlers[h].readable
        /\ handlers[h].path # NoPath
        /\ handlers[h].st = "Finished" /\ ~handlers[h].hadFns
        /\ handlers[h].resp.status = "Error"

\* the function most recently inserted under exactly (fh, mh), or a miss
LastInserted(hist, fh, mh) ==
    LET at == {i \in 1..Len(hist) : hist[i].fh = fh /\ hist[i].mh = mh}
    IN  IF at = {} THEN Miss
        ELSE Hit(hist[CHOOSE i \in at : \A k \in at : k <= i].fn)

\* C11: after any sequence of insert_cache calls, get_cache(fh, mh) returns the
\* function most recently inserted under exactly that pair, and a miss for a
\* pair never inserted (also when one of its two hashes was inserted).
C11_GetReturnsLastInserted ==
    (input # <<>> /\ input.op = "get")
    => output = LastInserted(inserted, input.fh, input.mh)

\* a pair inserted twice, with different functions, is queried and answers
\* with the second one
C11_Witness ==
    /\ input # <<>> /\ input.op = "get" /\ output.hit
    /\ \E i, k \in 1..Len(inserted) :
          /\ i < k /\ inserted[i].fh = input.fh /\ inserted[i].mh = input.mh
          /\ inserted[k].fh = input.fh /\ inserted[k].mh = input.mh
          /\ inserted[i].fn # inserted[k].fn /\ output.fn = inserted[k].fn

\* C12: when caching is enabled and the persisted cache file is malformed, an
\* empty cache is substituted: the results of the process are inserted into it
\* and the store is persisted when the process ends.
C12_MalformedCacheReplaced ==
    (expanded /\ cache_path /\ input.disk0 = "malformed" /\ input.writable)
    => /\ disk.kind = "valid"
       /\ \A f \in CrateFns :
             CacheData_get_cache(disk.data, f.fh, f.mh) = Hit(Analysis(f))

\* the positions a list of ranges covers
Covered(ranges) ==
    {p \in 0..(MaxLoc + 2) : \E i \in 1..Len(ranges) :
        ranges[i].from <= p /\ p < ranges[i].until}

\* two half-open ranges share a position
Overlap(a, b) == a.from < b.until /\ b.from < a.until

\* two half-open ranges share a position or are exactly adjacent
Touch(a, b) == a.from <= b.until /\ b.from <= a.until

\* C13: eliminated_ranges is idempotent, and no two ranges of its result
\* overlap or are exactly adjacent, whatever the order of the input.
C13_EliminatedIsFlat ==
    output.done
    => /\ eliminated_ranges(output.ranges) = output.ranges
       /\ \A i, k \in 1..Len(output.ranges) :
             i # k => ~Touch(output.ranges[i], output.ranges[k])

\* three ranges, the first two apart and the third adjacent to both, were
\* flattened into one
C13_Witness ==
    /\ output.done
    /\ Len(input) = 3 /\ Len(output.ranges) = 1
    /\ ~Touch(input[1], input[2])
    /\ input[1].until = input[3].from /\ input[3].until = input[2].from

C15_ExcludeIsExact ==
    output.op = "exclude"
    => Covered(output.ranges) = Covered(input.xs) \ Covered(input.ys)

\* what the claim gives for common_range
Intersection(a, b) ==
    IF Overlap(a, b)
    THEN SomeRange([from |-> Max(a.from, b.from), until |-> Min(a.until, b.until)])
    ELSE NoRange

\* C16: common_range(a, b) = common_range(b, a), and it is the intersection
\* of the two ranges when they share a position and none otherwise, also when
\* they are only adjacent.
C16_CommonRangeSymmetric ==
    output.op = "common"
    => /\ output.ranges[1] = output.ranges[2]
       /\ output.ranges[1] = Intersection(input.a, input.b)

\* the first range starts after the second and overlaps it
C16_Witness ==
    /\ output.op = "common"
    /\ input.b.from < input.a.from
    /\ Overlap(input.a, input.b)
    /\ output.ranges[1].some

\* the cursor lies in the half-open range
InRange(pos, range) == range.from <= pos /\ pos < range.until

\* the visits that offered an event range of a candidate variable to the
\* selector: a declaration site, a move, a borrow or a call
IsEvent(i) ==
    \/ /\ visited[i].visit = "decl" /\ visited[i].what = "User"
       /\ visited[i].ty \notin ASYNC_RESUME_TY
    \/ /\ visited[i].what \in {"Move", "Borrow", "Call"}
       /\ Contains(select_local.candidate_local_decls, visited[i].local)
EventsAtCursor ==
    {i \in 1..Len(visited) : IsEvent(i) /\ InRange(select_local.pos, visited[i].range)}

\* C17: once the functions of a file are visited, if the declaration site of
\* a candidate variable contains the cursor, the selection was made by a
\* declaration-site match, never by a move, borrow or call.
C17_DeclarationBeatsEvents ==
    (\E i \in EventsAtCursor : visited[i].visit = "decl")
    => select_local.selected.some /\ select_local.selected.reason = "Var"

\* C18: if the cursor lies in no event range of a candidate variable, nothing
\* is selected and the decoration list is empty.
C18_NoSelectionOutsideRanges ==
    EventsAtCursor = {}
    => /\ ~select_local.selected.some
       /\ ~Walking => calc_decos.decorations = <<>>

\* the call, among those at the cursor, that the claim selects: the widest,
\* and the first visited of the widest
WidestCall(calls) ==
    CHOOSE i \in calls : \A k \in calls :
        \/ Range_size(visited[k].range) < Range_size(visited[i].range)
        \/ Range_size(visited[k].range) = Range_size(visited[i].range) /\ i <= k

\* C20: when the only events containing the cursor are calls, the selection
\* is the widest of them, the first visited among equals.
C20_WidestCallSelected ==
    (EventsAtCursor # {} /\ \A i \in EventsAtCursor : visited[i].what = "Call")
    => LET call == visited[WidestCall(EventsAtCursor)]
       IN  select_local.selected = Selection("Call", call.local, call.range)

\* the same with the test select itself makes, which takes the position
\* range.until for a position of the range
EventsAtCursorInclusive ==
    {i \in 1..Len(visited) : IsEvent(i) /\ AtCursor(select_local, visited[i].range)}
C20_WidestCallSelectedInclusive ==
    (EventsAtCursorInclusive # {}
        /\ \A i \in EventsAtCursorInclusive : visited[i].what = "Call")
    => LET call == visited[WidestCall(EventsAtCursorInclusive)]
       IN  select_local.selected = Selection("Call", call.local, call.range)

\* range a strictly contains range b
StrictlyContains(a, b) == a.from <= b.from /\ b.until <= a.until /\ a # b

\* the Call decorations a new call is strictly contained in, and those it
\* strictly contains
CallsAround(decorations, range) ==
    {i \in 1..Len(decorations) :
        decorations[i].kind = "Call" /\ StrictlyContains(decorations[i].range, range)}
CallsWithin(decorations, range) ==
    {i \in 1..Len(decorations) :
        decorations[i].kind = "Call" /\ StrictlyContains(range, decorations[i].range)}

\* C19: when a call to the selected variable is visited, the wider of two
\* nested call ranges is kept: the new call is dropped if an existing Call
\* decoration strictly contains it, and otherwise it removes every existing
\* Call decoration it strictly contains.
C19_WidestCallKept ==
    [][(/\ Len(visited') = Len(visited) + 1
        /\ visited'[Len(visited')].what = "Call"
        /\ visited'[Len(visited')].local \in calc_decos.locals)
       => LET call == visited'[Len(visited')]
              old == calc_decos.decorations
              new == calc_decos'.decorations
          IN  IF CallsAround(old, call.range) # {}
              THEN new = old
              ELSE /\ Contains(new, Deco("Call", call.local, call.range))
                   /\ \A i \in CallsWithin(old, call.range) : ~Contains(new, old[i])]_vars

\* the visit just made, and whether it offered the selector an event of a
\* candidate variable whose range contains the cursor
Visited == Len(visited') = Len(visited) + 1
LastVisit == visited'[Len(visited')]
OfferedAtCursor ==
    /\ Visited
    /\ Contains(select_local'.candidate_local_decls, LastVisit.local)
    /\ InRange(select_local.pos, LastVisit.range)

\* C21: with no declaration-site match selected, a move or borrow at the
\* cursor replaces the selection exactly when its range is strictly narrower
\* than the selected one (on equal sizes the earlier selection stays), and
\* a call never replaces a selected move or borrow.
C21_NarrowerMoveBorrowWins ==
    [][(/\ OfferedAtCursor
        /\ select_local.selected.some
        /\ select_local.selected.reason # "Var")
       => LET old == select_local.selected
              new == select_local'.selected
              event == LastVisit
          IN  /\ event.what \in {"Move", "Borrow"}
                 => new = IF Range_size(event.range) < Range_size(old.range)
                          THEN Selection(event.what, event.local, event.range)
                          ELSE old
              /\ event.what = "Call" /\ old.reason \in {"Move", "Borrow"}
                 => new = old]_vars

\* a call at the cursor was selected, then a strictly narrower move or borrow
\* at the cursor took its place
C21_Witness ==
    /\ select_local.selected.some
    /\ select_local.selected.reason \in {"Move", "Borrow"}
    /\ \E i, k \in EventsAtCursor :
          /\ i < k
          /\ visited[i].what = "Call"
          /\ visited[k].what = select_local.selected.reason
          /\ visited[k].range = select_local.selected.range
          /\ Range_size(visited[k].range) < Range_size(visited[i].range)
    /\ \A i \in 1..Len(visited) :
          visited[i].visit = "decl" => ~AtCursor(select_local, visited[i].range)

\* C22: once a declaration-site match is selected, no move, borrow or call
\* changes the selection; only a strictly narrower declaration-site match
\* replaces it.
C22_DeclarationNeverReplaced ==
    [][(select_local.selected.some /\ select_local.selected.reason = "Var")
       => \/ select_local'.selected = select_local.selected
          \/ /\ Visited
             /\ LastVisit.visit = "decl"
             /\ select_local'.selected =
                   Selection("Var", LastVisit.local, LastVisit.range)
             /\ Range_size(LastVisit.range) < Range_size(select_local.selected.range)]_vars

\* a declaration site was selected, and a strictly narrower move or borrow of
\* a candidate visited later at the cursor left it in place
C22_Witness ==
    /\ select_local.selected.reason = "Var"
    /\ \E i, k \in EventsAtCursor :
          /\ i < k
          /\ visited[i].visit = "decl"
          /\ visited[i].range = select_local.selected.range
          /\ visited[k].what \in {"Move", "Borrow"}
          /\ Range_size(visited[k].range) < Range_size(visited[i].range)

\* the SharedMut decorations of the list, as ranges
SharedMutRanges ==
    LET idx == {i \in 1..Len(calc_decos.decorations) :
                   calc_decos.decorations[i].kind = "SharedMut"}
    IN  {calc_decos.decorations[i].range : i \in idx}
SharedMutCount ==
    Cardinality({i \in 1..Len(calc_decos.decorations) :
                    calc_decos.decorations[i].kind = "SharedMut"})
RangeSeq(S) == CHOOSE seq \in [1..Cardinality(S) -> S] : \A r \in S : Contains(seq, r)

\* C23: for a declaration of a selected variable the SharedMut decorations
\* are disjoint ranges covering exactly the positions where a shared-borrow
\* range and a mutable-borrow range intersect: none where only borrows of
\* one kind overlap, one where the two sets overlap in one contiguous range.
C23_SharedMutIsIntersection ==
    (visited # <<>> /\ input.selected)
    => /\ Covered(RangeSeq(SharedMutRanges)) =
             Covered(input.shared) \cap Covered(input.mutable)
       /\ SharedMutCount = Cardinality(SharedMutRanges)
       /\ \A a, b \in SharedMutRanges : a # b => ~Touch(a, b)

\* two shared borrows overlap each other and one of them overlaps the only
\* mutable borrow: one SharedMut decoration
C23_Witness ==
    /\ visited # <<>> /\ input.selected
    /\ Len(input.shared) = 2 /\ Overlap(input.shared[1], input.shared[2])
    /\ input.shared[1] # input.shared[2]
    /\ Len(input.mutable) = 1
    /\ SharedMutCount = 1
    /\ Covered(input.shared) # Covered(input.mutable)

\* the list handle_overlapping left
Resolved == calc_decos.decorations
RangesOf(decos) == [i \in 1..Len(decos) |-> decos[i].range]

\* C24: after handle_overlapping no two decorations of the result have the
\* same kind and the same range.
C24_NoSameKindSameRange ==
    output = "done"
    => \A i, k \in 1..Len(Resolved) :
          i # k => ~(/\ Resolved[i].kind = Resolved[k].kind
                     /\ Resolved[i].range = Resolved[k].range)

\* C25: for any two collected decorations whose ranges intersect, the result
\* has a piece of one of them with overlapped = true and exactly their
\* intersection as its range.
C25_OverlapMarkedOnIntersection ==
    output = "done"
    => \A i, k \in 1..Len(input) :
          (i # k /\ Overlap(input[i].range, input[k].range))
          => \E p \in 1..Len(Resolved) :
                /\ Resolved[p].overlapped
                /\ Resolved[p].kind \in {input[i].kind, input[k].kind}
                /\ SomeRange(Resolved[p].range) =
                      Intersection(input[i].range, input[k].range)

\* C26: the list left by handle_overlapping is ordered by kind priority.
C26_ResultInKindOrder ==
    output = "done"
    => \A i, k \in 1..Len(Resolved) :
          i < k => get_deco_order(Resolved[i].kind) <= get_deco_order(Resolved[k].kind)

\* two decorations of different kinds that do not intersect were both split
\* by a third of a later kind, each leaving one remainder, re-inserted in the
\* same turn
C26_Witness ==
    /\ output = "done"
    /\ Len(input) = 3
    /\ get_deco_order(input[1].kind) < get_deco_order(input[2].kind)
    /\ get_deco_order(input[2].kind) < get_deco_order(input[3].kind)
    /\ ~Overlap(input[1].range, input[2].range)
    /\ Len(Resolved) = 5
    /\ Resolved[2].kind = input[1].kind /\ ~Resolved[2].overlapped
    /\ Resolved[4].kind = input[2].kind /\ ~Resolved[4].overlapped

\* two decorations collected in priority order, the first split by the second
SplitOnce ==
    /\ output = "done"
    /\ Len(input) = 2
    /\ get_deco_order(input[1].kind) <= get_deco_order(input[2].kind)
    /\ input[1] # input[2]
    /\ Overlap(input[1].range, input[2].range)

\* C29: when an earlier decoration is split against a later one, its
\* overlapped piece is exactly the intersection, its remainders are exactly
\* the rest, and together they cover the range it had.
C29_SplitLosesNothing ==
    SplitOnce
    => LET pieces == SubSeq(Resolved, 1, Len(Resolved) - 1)
           rest == SubSeq(pieces, 2, Len(pieces))
       IN  /\ pieces # <<>>
           /\ pieces[1].overlapped
           /\ SomeRange(pieces[1].range) = Intersection(input[1].range, input[2].range)
           /\ \A i \in 1..Len(rest) : ~rest[i].overlapped
           /\ Covered(RangesOf(rest)) =
                 Covered(<<input[1].range>>) \ Covered(<<input[2].range>>)
           /\ Covered(RangesOf(pieces)) = Covered(<<input[1].range>>)

\* C30: after handle_overlapping any two decorations of the result whose
\* ranges intersect include one with overlapped = true; every step of the
\* pass ends as the pass on the decorations taken so far does.
C30_UnmarkedAreDisjoint ==
    output = "done"
    => \A i, k \in 1..Len(Resolved) :
          (i # k /\ Overlap(Resolved[i].range, Resolved[k].range))
          => Resolved[i].overlapped \/ Resolved[k].overlapped

\* three decorations were collected, the first was split in two remainders
\* around the second, and the third cut one of the remainders again
C30_Witness ==
    /\ output = "done"
    /\ Len(input) = 3
    /\ Len(Resolved) >= 5
    /\ \E i, k \in 1..Len(Resolved) :
          /\ i # k
          /\ Overlap(Resolved[i].range, Resolved[k].range)
          /\ Resolved[i].overlapped /\ ~Resolved[k].overlapped
    /\ Cardinality({i \in 1..Len(Resolved) : Resolved[i].overlapped}) >= 2

\* the exact result clamped from below at 0
Clamped(x) == IF x < 0 THEN 0 ELSE x

\* C27: for every offset v and signed delta d, v + d and v - d are the exact
\* result clamped from below at 0, without wrap-around or overflow, when that
\* result fits the width.
C27_LocArithmeticSaturates ==
    /\ (output.op = "add" /\ Clamped(input.loc + input.rhs) \in Unsigned)
       => output.result = Value(Clamped(input.loc + input.rhs))
    /\ (output.op = "sub" /\ Clamped(input.loc - input.rhs) \in Unsigned)
       => output.result = Value(Clamped(input.loc - input.rhs))

\* C28: Range::new(from, until) returns no range exactly when until <= from,
\* and every range returned by common_range, merge_ranges, eliminated_ranges
\* and exclude_ranges has until > from and a size above 0.
C28_RangesAreNonEmpty ==
    /\ output.op = "new"
       => (output.ranges[1] = NoRange <=> input[1].until <= input[1].from)
    /\ output.op # "none"
       => \A i \in 1..Len(output.ranges) :
             output.ranges[i].some
             => /\ output.ranges[i].until > output.ranges[i].from
                /\ Range_size(Unwrap(output.ranges[i])) > 0

\* Range::new refused one of three pairs, and a range of the two others was
\* cut by exclude_ranges to a shorter one
C28_Witness ==
    /\ output.op = "excluded"
    /\ Len(Made(input)) = 2
    /\ \E i \in 1..3 : input[i].until <= input[i].from
    /\ Len(output.ranges) = 1
    /\ Range_size(Unwrap(output.ranges[1])) < Range_size(Made(input)[1])

\* the statements of block b (from 0) in the front end
FrontCount(b) == Len(input[b + 1].statements)

\* the range of the statement that the front end numbers i in block b, or of
\* the terminator of b when i is the front end's statement count
FrontRange(b, i) ==
    IF i < FrontCount(b)
    THEN range_from_span(input[b + 1].statements[i + 1].ranged, i)
    ELSE range_from_span(input[b + 1].terminator.ranged, i)

\* a statement the basic-block model keeps, or the terminator
FrontKept(b, i) ==
    \/ i = FrontCount(b)
    \/ /\ i < FrontCount(b)
       /\ input[b + 1].statements[i + 1].visible
       /\ input[b + 1].statements[i + 1].ranged

UsedLocations ==
    {ZippedLocations(output.locations)[k].start : k \in 1..Len(ZippedLocations(output.locations))}
    \cup
    {ZippedLocations(output.locations)[k].mid : k \in 1..Len(ZippedLocations(output.locations))}

\* C31: the range used for a start or mid location (b, i) is the range of the
\* statement that the front end numbers i in block b, or of b's terminator
\* when i is the front end's statement count of b, also when other statements
\* of the block were left out of the basic-block model.
C31_LocationRangeIsFrontEndStatement ==
    output.op = "converted"
    => \A l \in UsedLocations :
          (l.block < Len(input) /\ FrontKept(l.block, l.statement_index))
          => statement_location_to_range(output.basic_blocks, l.block, l.statement_index)
             = FrontRange(l.block, l.statement_index)

\* a location outside the function or beyond the statements and terminator
\* of its block
Unpairable(l) ==
    \/ l.block >= Len(output.basic_blocks)
    \/ l.statement_index > Len(output.basic_blocks[l.block + 1].statements)

RECURSIVE PairableRanges(_)
PairableRanges(pairs) ==
    IF pairs = <<>> THEN <<>>
    ELSE (IF Unpairable(Head(pairs).start) \/ Unpairable(Head(pairs).mid)
          THEN <<>>
          ELSE Pushed(PairRange(output.basic_blocks, Head(pairs))))
         \o PairableRanges(Tail(pairs))

\* C32: a (start, mid) pair with a location whose block is outside the
\* function, or whose statement index is beyond the statements and terminator
\* of its block, contributes no range, and all other pairs are converted.
C32_UnpairableContributesNothing ==
    output.op = "converted"
    => output.ranges = PairableRanges(ZippedLocations(output.locations))

\* C33: every analysis task that completes successfully has its result sent
\* and inserted into the cache before the cache is persisted at the end of
\* the compilation, also when the task of another function of the crate
\* panics and is joined earlier.
C33_SuccessfulTasksReachCache ==
    expanded
    => \A f \in CrateFns \ input.panics :
          /\ \E i \in 1..Len(output) : output[i] = Analysis(f)
          /\ CACHE.some => CacheData_get_cache(CACHE.data, f.fh, f.mh) = Hit(Analysis(f))

\* C34: under fair scheduling, and provided every front end eventually closes
\* its output, the status does not stay Analyzing forever: it is eventually
\* Finished or Error.
C34_AnalyzingEnds ==
    (status = "Analyzing") ~> (status \in {"Finished", "Error"})

\* the finalizer of the last batch has decided after a job of that batch was
\* cancelled
C34_Witness ==
    /\ lastBatch # 0
    /\ finalizers[lastBatch] = "done"
    /\ status \in {"Finished", "Error"}
    /\ \E j \in Jobs : jobs[j].batch = lastBatch /\ jobs[j].cancelled

\* C35: under fair scheduling, every call of shutdown_subprocesses returns
\* without waiting for a front end to produce further output.
C35_ShutdownReturns ==
    \A h \in Handlers :
       (handlers[h].pc = "sd_lock") ~> (handlers[h].pc # "sd_lock")

\* every command has answered
CommandsDone == \A i \in 1..Len(output.commands) : output.commands[i].pc = "done"

\* the commands given for a file, in order
RECURSIVE CommandsOn(_, _)
CommandsOn(commands, path) ==
    IF commands = <<>> THEN <<>>
    ELSE (IF Head(commands).path = path THEN <<Head(commands)>> ELSE <<>>)
         \o CommandsOn(Tail(commands), path)

\* C36: toggleOwnership flips the file's flag (a file never seen counts as
\* disabled) and reports the new value, enableOwnership and disableOwnership
\* set it to true and false; after each command diagnostics are published for
\* the file exactly when the resulting flag is true and cleared when it is
\* false; two consecutive toggles restore the flag.
C36_OwnershipFlagAndDiagnostics ==
    /\ \A i \in 1..Len(output.commands) :
          LET c == output.commands[i]
          IN  /\ c.command = CMD_TOGGLE_OWNERSHIP => c.enabled = ~c.before
              /\ c.command = CMD_ENABLE_OWNERSHIP => c.enabled
              /\ c.command = CMD_DISABLE_OWNERSHIP => ~c.enabled
    /\ \A f \in FileNames :
          LET on == CommandsOn(output.commands, f)
          IN  /\ on # <<>> => IsEnabled(output.enabled_files, f) = on[Len(on)].enabled
              /\ \A k \in 1..(Len(on) - 1) :
                    (on[k].command = CMD_TOGGLE_OWNERSHIP
                     /\ on[k + 1].command = CMD_TOGGLE_OWNERSHIP)
                    => on[k + 1].enabled = on[k].before
              /\ (CommandsDone /\ on # <<>>)
                 => output.diagnostics[f] =
                       (IF IsEnabled(output.enabled_files, f) THEN "published" ELSE "cleared")

\* C37: handle_overlapping never inserts a remainder at an index greater
\* than the length of the result list: no call of Vec::insert panics,
\* whatever the decorations collected and whatever one-remainder and
\* two-remainder splits a new decoration causes.
C37_NoInsertionOutOfBounds == output # "panic"

\* the first decoration was split in two remainders around the second, both
\* inserted before the end of the list, and the third cut one of these
\* remainders again, leaving one remainder inserted in the middle
C37_Witness ==
    /\ output = "done"
    /\ Len(input) = 3
    /\ get_deco_order(input[1].kind) < get_deco_order(input[2].kind)
    /\ get_deco_order(input[2].kind) < get_deco_order(input[3].kind)
    /\ input[1].range.from < input[2].range.from
    /\ input[2].range.until < input[1].range.until
    /\ Cardinality({i \in 1..Len(Resolved) :
                       Resolved[i].kind = input[1].kind /\ ~Resolved[i].overlapped}) >= 2
    /\ Cardinality({i \in 1..Len(Resolved) :
                       Resolved[i].kind = input[1].kind /\ Resolved[i].overlapped}) >= 2

\* the Call decorations of the synthesizer
CallDecos == {i \in 1..Len(calc_decos.decorations) : calc_decos.decorations[i].kind = "Call"}

\* C38: after any sequence of visit_term calls, no Call decoration of the
\* list has a range that strictly contains the range of another Call
\* decoration of the list.
C38_NoNestedCalls ==
    \A i, k \in CallDecos :
        ~is_super_range(calc_decos.decorations[i].range, calc_decos.decorations[k].range)

\* three calls were visited; one of them contained another and is no longer
\* in the list, which holds two Call decorations
C38_Witness ==
    /\ Cardinality(CallDecos) = 2
    /\ \E a, b \in 1..Len(visited) :
          /\ visited[a].visit = "term" /\ visited[a].what = "Call"
          /\ visited[b].visit = "term" /\ visited[b].what = "Call"
          /\ visited[a].local \in calc_decos.locals
          /\ visited[b].local \in calc_decos.locals
          /\ a < b
          /\ is_super_range(visited[a].range, visited[b].range)
          /\ \A i \in CallDecos : calc_decos.decorations[i].range # visited[a].range

\* C39: for every text s without carriage returns and every offset i with
\* 0 <= i <= length of s, line_char_to_index(s, index_to_line_char(s, i)) = i,
\* the offset equal to the length of the text included.
C39_OffsetRoundTrip ==
    (/\ output.op = "index"
     /\ \A k \in 1..Len(input.s) : input.s[k] # "CR"
     /\ input.idx <= Len(input.s))
    => output.index = input.idx

\* C40: for every input list of decorations, the in-place handle_overlapping
\* of lsp/decoration.rs and the accumulating handle_overlapping of
\* lsp_decoration.rs leave the same list of decorations: the same kinds,
\* ranges, overlapped flags and order.
C40_BothVersionsAgree ==
    output.handled = {"in_place", "accumulating"}
    => output.in_place = output.accumulating

====
